---- MODULE Spec2Model ----
(***************************************************************************)
(* The audio mixer of mediastreamer2 (src/audiofilters/audiomixer2.c, the  *)
(* scalar strategy, and src/audiofilters/audiomixer_avx2.c, the vectorized *)
(* strategy) as a state machine.  Both strategies are driven in lockstep   *)
(* by the same input queues, the same ticker and the same control calls.   *)
(*                                                                         *)
(* A frame (mblk_t) is the sequence of its 16-bit samples; a queue is a    *)
(* sequence of frames; a bufferizer is the sequence of the samples it      *)
(* holds (frames carry whole samples, so every byte count is even).        *)
(* The ticker is not part of the sources: f->ticker->time is an input of   *)
(* process(), which advances by one of TickSteps between two ticks.        *)
(***************************************************************************)
EXTENDS Integers, Sequences, FiniteSets, TLC

(* ------------------------- program constants --------------------------- *)
MIXER_MAX_CHANNELS == 128
BYPASS_MODE_TIMEOUT == 1000
FLOW_CONTROL_WINDOW == 5000
VLENGTH == 8
SHRT_MAX == 32767
RATE_UNIT == 8000
DEFAULT_RATE == 16000
\* (uint64_t) -1, the "never" timestamp
NO_TIME == -1
\* f->ticker->interval, in ms
interval == 1
\* a sample of memory that posix_memalign or allocb returned and nobody wrote yet;
\* no 16-bit sample has this value
UNINIT == 99999
MS_EVENT_QUEUE_MAX_SIZE == 1024

(* ------------------------------ bounds --------------------------------- *)
\* pins 0 .. NPins-1 of the 128 can be linked to a queue
NPins == 4
MaxTicks == 2
MaxCtl == 1
MaxSoloTicks == 3
MaxConcTicks == 1
MaxConcCtl == 2
MaxCtlTicks == 1
MaxCtlCalls == 2
MaxLifeTicks == 3
MaxFlowCalls == 3
MaxQuietTicks == 3
MaxNotify == 3
NWriters == 2

Pins == 0 .. (NPins - 1)

(* ------------------------------ inputs --------------------------------- *)
\* one tick of audio at 16000 Hz (two ticks at 8000 Hz)
FrameA == <<100, -50, 32767, -32768, 32767, -32768, 1, 0, 11, 12, 13, 14, 15, 16, 17, 18>>
FrameB == <<200, 30, 32767, -32768, -32768, 32767, -1, 0, 21, 22, 23, 24, 25, 26, 27, 28>>
FrameC == <<-10, 5, 32767, -32768, 7, 7, 0, 0, 31, 32, 33, 34, 35, 36, 37, 38>>
\* half a tick of audio at 16000 Hz
FrameHalf == <<3, -3, 32767, -32768, 41, 42, 43, 44>>
\* what the producer linked to an input pin may queue between two ticks
ArrivalsOf(p) ==
    CASE p = 0 -> {<<>>, <<FrameHalf>>, <<FrameA, FrameHalf>>}
      [] p = 1 -> {<<>>, <<FrameB>>}
      [] p = 2 -> {<<>>, <<FrameC>>}
      [] OTHER -> {<<>>}
\* the frames queued between two ticks; the producer of input 2 speaks only while the
\* producer of input 1 does
Arrivals ==
    { [p \in Pins |-> CASE p = 0 -> a0 [] p = 1 -> a12[1] [] p = 2 -> a12[2] [] OTHER -> <<>>] :
        a0 \in ArrivalsOf(0),
        a12 \in {x \in ArrivalsOf(1) \X ArrivalsOf(2) : x[2] = <<>> \/ x[1] # <<>>} }
\* the frames queued between two ticks when input 0 alone is fed
SoloArrivals == {arr \in Arrivals : \A p \in Pins : p # 0 => arr[p] = <<>>}

\* how the filter graph links the pins (f->inputs[i], f->outputs[i] non-NULL)
Topologies ==
    { [in |-> {0, 1, 2}, out |-> {0, 3}] }
\* a conference of two participants and a third source
ConcTopologies ==
    { [in |-> {0, 1, 2}, out |-> {0, 1}] }
\* the frames queued before an interleaved tick: input 0 speaks, alone or with the others
ConcArrivals == {arr \in Arrivals : arr[0] = <<FrameA, FrameHalf>> /\ (arr[1] = <<>> <=> arr[2] = <<>>)}
TickSteps == {1, 5000}
RateArgs == {8000, 16000}
PinArgs == {0}
\* input 0 speaks at every tick, the others at some; the ticks come at the edge of the
\* bypass timeout
QuietArrivals == {arr \in Arrivals : arr[0] = <<FrameHalf>>}
QuietSteps == {1, 999, 1000}
\* the rates and channel counts set around and during an interleaved tick
CfgRateArgs == {0, 8000, 11025}
CfgChannelArgs == {0, 2}
\* the arguments of the control calls whose validation is under study
CtlRateArgs == {8000, 11025, 16000, 24000}
CtlPinArgs == {-1, 0, MIXER_MAX_CHANNELS}
\* the 32-bit values to saturate: the ends of the range, the values around the
\* limits of a sample, and values spread over the range of a lane
\* the samples a bufferizer holds after the drain, and the time between two invocations
FlowFills == {0, 16, 31, 32, 48}
FlowSteps == {1, 2500, 5000}

SatArgs ==
    {-2147483647 - 1, 2147483647, -65536, 65535}
    \cup (-32770 .. -32764) \cup (32764 .. 32770) \cup (-3 .. 3)
    \cup {k * 4099 : k \in -10 .. 10}
\* the samples that push a lane of the accumulator furthest
ExtremeSamples == {-32768, 32767}

\* what a sample of unwritten memory may read as
GarbageFill == {0, 77}

VARIABLES
    inputs,     \* the linked input pins
    outputs,    \* the linked output pins
    inq,        \* inq[i]: the frames the latest tick left on the queue of input i
    time,       \* f->ticker->time at the latest tick
    phase,      \* "init", "prepared", "running", "unprepared"
    s,          \* the MixerState of the scalar strategy
    v,          \* the MixerState of the vectorized strategy
    outq,       \* outq[i]: the frames the scalar strategy put on output i, when the
                \* latest operation was a tick
    voutq,      \* the same for the vectorized strategy
    last,       \* when the latest operation was a tick: how many inputs it counted
                \* active, the last of them, and the queues and the bufferizers it found
    budget,     \* how many ticks and control calls have happened
    hist,       \* in a run that feeds input 0 alone: the samples fed to it so far, the
                \* samples each output has received so far, the time of the first tick,
                \* and whether every tick so far found frames queued on input 0
    acc,        \* in a run that follows one lane of the accumulator: how many channels
                \* have been summed, the lane in each strategy, the sample of the
                \* latest channel, and what an output was given
    sat,        \* in a run that saturates one value: the value, and what each strategy makes of it once and twice
    fc,         \* in a run that invokes the flow control of one channel: the channel before and after the latest invocation, and the fullness seen since the window began
    quiet,      \* in a run that watches one speaker: the input that alone was fed at the latest ticks, and the time of the first of these ticks
    evq,        \* the event queue of the factory: the queued events, the filter whose callbacks the pump is invoking, where the pump and the notifying threads are, and the callbacks invoked so far
    call,       \* the latest control call, its argument and what each strategy returned
    conc        \* in a run that interleaves a tick with the control thread: who holds
                \* the filter lock, where the tick and the control call are, the output
                \* the tick handles next, and the frames a bypass tick forwards

vars == <<evq, quiet, fc, sat, inputs, outputs, inq, time, phase, s, v, outq, voutq, last, budget, hist, acc, call, conc>>

(* ------------------------------ helpers -------------------------------- *)
Zeros(n) == [k \in 1 .. n |-> 0]
Fill(n, x) == [k \in 1 .. n |-> x]
\* C integer division truncates toward zero
CDiv(a, b) == IF a >= 0 THEN a \div b ELSE -((-a) \div b)
CMod(a, b) == a - b * CDiv(a, b)
\* the cast (short)
ToShort(x) == ((x + 32768) % 65536) - 32768
RECURSIVE Flatten(_)
Flatten(q) == IF q = <<>> THEN <<>> ELSE Head(q) \o Flatten(Tail(q))
Prefix(seq, n) == SubSeq(seq, 1, n)
Drop(seq, n) == SubSeq(seq, n + 1, Len(seq))

(* ---------------------- queues and bufferizers ------------------------- *)
ms_queue_empty(q) == q = <<>>
ms_bufferizer_put_from_queue(buf, q) == buf \o Flatten(q)
\* in bytes
ms_bufferizer_get_avail(buf) == 2 * Len(buf)
\* a read of datalen bytes succeeds when that many bytes are held
ms_bufferizer_can_read(buf, datalen) == datalen > 0 /\ ms_bufferizer_get_avail(buf) >= datalen
ms_bufferizer_read(buf, datalen) ==
    IF ms_bufferizer_can_read(buf, datalen)
    THEN [ret |-> datalen, data |-> Prefix(buf, datalen \div 2), buf |-> Drop(buf, datalen \div 2)]
    ELSE [ret |-> 0, data |-> <<>>, buf |-> buf]
ms_bufferizer_skip_bytes(buf, bytes) == ms_bufferizer_read(buf, bytes).buf

(* --------------------------- audiomixer2.c ----------------------------- *)
\* a clamp to the whole 16-bit range, in place of the asymmetric one
saturate_sample_int16(x) ==
    ToShort(IF x > SHRT_MAX THEN SHRT_MAX ELSE IF x < -SHRT_MAX - 1 THEN -SHRT_MAX - 1 ELSE x)

\* a saturation whose upper limit is one too low
saturate_sample_low(x) ==
    ToShort(IF x > SHRT_MAX - 1 THEN SHRT_MAX - 1 ELSE IF x < -SHRT_MAX THEN -SHRT_MAX ELSE x)

saturate_sample(x) ==
    ToShort(IF x > SHRT_MAX THEN SHRT_MAX ELSE IF x < -SHRT_MAX THEN -SHRT_MAX ELSE x)

\* an accumulation that stores the input in place of adding it
accumulate_store(sum, input, nsamples) ==
    [k \in 1 .. Len(sum) |-> IF k <= nsamples THEN input[k] ELSE sum[k]]

\* an accumulation that counts every contribution twice
accumulate_twice(sum, input, nsamples) ==
    [k \in 1 .. Len(sum) |-> IF k <= nsamples THEN sum[k] + 2 * input[k] ELSE sum[k]]

accumulate(sum, input, nsamples) ==
    [k \in 1 .. Len(sum) |-> IF k <= nsamples THEN sum[k] + input[k] ELSE sum[k]]

\* a copy that forgets to subtract the channel's own contribution
subtract_and_copy_to_out_echo(sum, input, nsamples) ==
    [k \in 1 .. nsamples |-> saturate_sample(sum[k])]

subtract_and_copy_to_out(sum, input, nsamples) ==
    [k \in 1 .. nsamples |-> saturate_sample(sum[k] - input[k])]

\* a copy that stops one sample short
copy_to_out_short(sum, nsamples) ==
    [k \in 1 .. nsamples - 1 |-> saturate_sample(sum[k])]

copy_to_out(sum, nsamples) ==
    [k \in 1 .. nsamples |-> saturate_sample(sum[k])]

channel_init ==
    [ bufferizer |-> <<>>, input |-> <<>>, min_fullness |-> 0,
      last_flow_control |-> 0, last_activity |-> 0,
      active |-> TRUE, output_enabled |-> TRUE, had_input |-> FALSE ]

\* posix_memalign does not initialise the memory of chan->input
channel_prepare(chan, samples_per_tick) ==
    [chan EXCEPT !.input = Fill(samples_per_tick, UNINIT),
                 !.last_flow_control = NO_TIME,
                 !.last_activity = NO_TIME]

\* a flow control that takes the fullness of its first invocation as the minimum
channel_flow_control_counted(chan, threshold, t) ==
    IF chan.last_flow_control = NO_TIME
    THEN [chan EXCEPT !.last_flow_control = t,
                      !.min_fullness = ms_bufferizer_get_avail(chan.bufferizer)]
    ELSE
      LET size == ms_bufferizer_get_avail(chan.bufferizer)
          minf == IF chan.min_fullness = -1 \/ size < chan.min_fullness
                  THEN size ELSE chan.min_fullness
      IN  IF t - chan.last_flow_control >= FLOW_CONTROL_WINDOW
          THEN [chan EXCEPT
                  !.bufferizer =
                      IF minf >= threshold
                      THEN ms_bufferizer_skip_bytes(chan.bufferizer, minf - CDiv(threshold, 2))
                      ELSE chan.bufferizer,
                  !.last_flow_control = t,
                  !.min_fullness = -1]
          ELSE [chan EXCEPT !.min_fullness = minf]

\* a flow control that trims by the latest fullness, not the minimum of the window
channel_flow_control_latest(chan, threshold, t) ==
    IF chan.last_flow_control = NO_TIME
    THEN [chan EXCEPT !.last_flow_control = t, !.min_fullness = -1]
    ELSE
      LET size == ms_bufferizer_get_avail(chan.bufferizer)
          minf == IF chan.min_fullness = -1 \/ size < chan.min_fullness
                  THEN size ELSE chan.min_fullness
      IN  IF t - chan.last_flow_control >= FLOW_CONTROL_WINDOW
          THEN [chan EXCEPT
                  !.bufferizer =
                      IF size >= threshold
                      THEN ms_bufferizer_skip_bytes(chan.bufferizer, size - CDiv(threshold, 2))
                      ELSE chan.bufferizer,
                  !.last_flow_control = t,
                  !.min_fullness = -1]
          ELSE [chan EXCEPT !.min_fullness = minf]

\* a flow control that trims the whole minimum of the window
channel_flow_control_whole(chan, threshold, t) ==
    IF chan.last_flow_control = NO_TIME
    THEN [chan EXCEPT !.last_flow_control = t, !.min_fullness = -1]
    ELSE
      LET size == ms_bufferizer_get_avail(chan.bufferizer)
          minf == IF chan.min_fullness = -1 \/ size < chan.min_fullness
                  THEN size ELSE chan.min_fullness
      IN  IF t - chan.last_flow_control >= FLOW_CONTROL_WINDOW
          THEN [chan EXCEPT
                  !.bufferizer =
                      IF minf >= threshold
                      THEN ms_bufferizer_skip_bytes(chan.bufferizer, minf)
                      ELSE chan.bufferizer,
                  !.last_flow_control = t,
                  !.min_fullness = -1]
          ELSE [chan EXCEPT !.min_fullness = minf]

\* a flow control that trims without waiting for the window to elapse
channel_flow_control_eager(chan, threshold, t) ==
    IF chan.last_flow_control = NO_TIME
    THEN [chan EXCEPT !.last_flow_control = t, !.min_fullness = -1]
    ELSE
      LET size == ms_bufferizer_get_avail(chan.bufferizer)
          minf == IF chan.min_fullness = -1 \/ size < chan.min_fullness
                  THEN size ELSE chan.min_fullness
      IN  [chan EXCEPT
              !.bufferizer =
                  IF minf >= threshold
                  THEN ms_bufferizer_skip_bytes(chan.bufferizer, minf - CDiv(threshold, 2))
                  ELSE chan.bufferizer,
              !.last_flow_control = t,
              !.min_fullness = -1]

channel_flow_control(chan, threshold, t) ==
    IF chan.last_flow_control = NO_TIME
    THEN [chan EXCEPT !.last_flow_control = t, !.min_fullness = -1]
    ELSE
      LET size == ms_bufferizer_get_avail(chan.bufferizer)
          minf == IF chan.min_fullness = -1 \/ size < chan.min_fullness
                  THEN size ELSE chan.min_fullness
      IN  IF t - chan.last_flow_control >= FLOW_CONTROL_WINDOW
          THEN [chan EXCEPT
                  !.bufferizer =
                      IF minf >= threshold
                      THEN ms_bufferizer_skip_bytes(chan.bufferizer, minf - CDiv(threshold, 2))
                      ELSE chan.bufferizer,
                  !.last_flow_control = t,
                  !.min_fullness = -1]
          ELSE [chan EXCEPT !.min_fullness = minf]

channel_unprepare(chan) == [chan EXCEPT !.input = <<>>]

mixer_init ==
    [ nchannels |-> 1, rate |-> DEFAULT_RATE, samplespertick |-> 0,
      channels |-> [i \in Pins |-> channel_init],
      conf_mode |-> FALSE, sum |-> <<>>, skip_threshold |-> 0,
      bypass_mode |-> FALSE, single_output |-> FALSE ]

has_single_output(st, outs) ==
    Cardinality({i \in Pins : i \in outs /\ st.channels[i].output_enabled}) = 1

mixer_preprocess(st, outs) ==
    LET spt == CDiv(st.nchannels * st.rate * interval, 1000)
        st1 == [st EXCEPT
                  !.samplespertick = spt,
                  !.sum = Fill(spt, UNINIT),
                  !.channels = [i \in Pins |-> channel_prepare(st.channels[i], spt)],
                  !.skip_threshold = spt * 4,
                  !.bypass_mode = FALSE]
    IN  [st1 EXCEPT !.single_output = has_single_output(st1, outs)]

\* an unprepare that keeps the contribution buffers of the channels
mixer_postprocess_leak(st) ==
    [st EXCEPT !.sum = <<>>]

mixer_postprocess(st) ==
    [st EXCEPT !.sum = <<>>,
               !.channels = [i \in Pins |-> channel_unprepare(st.channels[i])]]

\* a dispatch that forwards the active input's frames to its own output too
dispatch_target_echo(st, outs, i, active_input) ==
    i \in outs /\ st.channels[i].output_enabled

\* a dispatch that forwards to disabled outputs too
dispatch_target_all(st, outs, i, active_input) ==
    i \in outs /\ (active_input # i \/ ~st.conf_mode)

\* whether output i takes the frames of the sole active input
dispatch_target(st, outs, i, active_input) ==
    i \in outs /\ st.channels[i].output_enabled /\ (active_input # i \/ ~st.conf_mode)

\* the frames each output queue receives; the input queue is flushed by the caller
mixer_dispatch_output(st, outs, q, active_input) ==
    LET targets == {i \in Pins : dispatch_target(st, outs, i, active_input)}
        first == CHOOSE i \in targets : \A j \in targets : i <= j
    IN  [i \in Pins |->
           IF i \notin targets THEN <<>>
           ELSE IF st.single_output THEN (IF i = first THEN q ELSE <<>>)
           ELSE q]

\* the dupmsg calls of mixer_dispatch_output: one per frame and output, none when
\* the frames are moved to the single output
dispatch_allocs(st, outs, q, active_input) ==
    IF st.single_output THEN 0
    ELSE Len(q) * Cardinality({i \in Pins : dispatch_target(st, outs, i, active_input)})

\* a check that reports a transition on every tick
bypass_log_always(st, active_cnt) ==
    IF active_cnt = 1 THEN <<"entering">>
    ELSE IF active_cnt > 1 THEN <<"leaving">>
    ELSE <<>>

\* the ms_message of mixer_check_bypass
bypass_log(st, active_cnt) ==
    IF active_cnt = 1 /\ ~st.bypass_mode THEN <<"entering">>
    ELSE IF active_cnt > 1 /\ st.bypass_mode THEN <<"leaving">>
    ELSE <<>>

\* a count that knows no hangover
counted_active_strict(st, ins, qs, curtime) ==
    {i \in Pins : i \in ins /\ ~ms_queue_empty(qs[i])}

\* a count whose hangover lasts one time unit too long
counted_active_late(st, ins, qs, curtime) ==
    {i \in Pins : i \in ins /\
        ( ~ms_queue_empty(qs[i])
          \/ ( st.channels[i].last_activity # NO_TIME
               /\ curtime - st.channels[i].last_activity <= BYPASS_MODE_TIMEOUT ) )}

\* the inputs the bypass check counts as active at curtime
counted_active(st, ins, qs, curtime) ==
    {i \in Pins : i \in ins /\
        ( ~ms_queue_empty(qs[i])
          \/ ( st.channels[i].last_activity # NO_TIME
               /\ curtime - st.channels[i].last_activity < BYPASS_MODE_TIMEOUT ) )}

stamp_activity(chan, q, curtime) ==
    IF ~ms_queue_empty(q) \/ chan.last_activity = NO_TIME
    THEN [chan EXCEPT !.last_activity = curtime]
    ELSE chan

\* a check that leaves bypass mode when it finds no input active
mixer_check_bypass_reset(st, ins, outs, qs, curtime) ==
    LET act == counted_active(st, ins, qs, curtime)
        active_cnt == Cardinality(act)
        active_input == IF act = {} THEN -1 ELSE CHOOSE i \in act : \A j \in act : j <= i
        st1 == [st EXCEPT !.channels =
                  [i \in Pins |-> IF i \in ins
                                  THEN stamp_activity(st.channels[i], qs[i], curtime)
                                  ELSE st.channels[i]]]
    IN  IF active_cnt = 1
        THEN [ ret |-> TRUE, st |-> [st1 EXCEPT !.bypass_mode = TRUE],
               out |-> mixer_dispatch_output(st1, outs, qs[active_input], active_input),
               qs |-> [qs EXCEPT ![active_input] = <<>>],
               cnt |-> active_cnt, active_input |-> active_input,
               allocs |-> dispatch_allocs(st1, outs, qs[active_input], active_input),
               log |-> bypass_log(st, active_cnt) ]
        ELSE [ ret |-> active_cnt = 0, st |-> [st1 EXCEPT !.bypass_mode = FALSE],
               out |-> [i \in Pins |-> <<>>], qs |-> qs,
               cnt |-> active_cnt, active_input |-> active_input,
               allocs |-> 0, log |-> bypass_log(st, active_cnt) ]

\* ret: TRUE when the tick is over; out: the frames put on the outputs;
\* qs: the input queues afterwards
mixer_check_bypass(st, ins, outs, qs, curtime) ==
    LET act == counted_active(st, ins, qs, curtime)
        active_cnt == Cardinality(act)
        active_input == IF act = {} THEN -1 ELSE CHOOSE i \in act : \A j \in act : j <= i
        st1 == [st EXCEPT !.channels =
                  [i \in Pins |-> IF i \in ins
                                  THEN stamp_activity(st.channels[i], qs[i], curtime)
                                  ELSE st.channels[i]]]
    IN  IF active_cnt = 1
        THEN [ ret |-> TRUE, st |-> [st1 EXCEPT !.bypass_mode = TRUE],
               out |-> mixer_dispatch_output(st1, outs, qs[active_input], active_input),
               qs |-> [qs EXCEPT ![active_input] = <<>>],
               cnt |-> active_cnt, active_input |-> active_input,
               allocs |-> dispatch_allocs(st1, outs, qs[active_input], active_input),
               log |-> bypass_log(st, active_cnt) ]
        ELSE IF active_cnt > 1
        THEN [ ret |-> FALSE, st |-> [st1 EXCEPT !.bypass_mode = FALSE],
               out |-> [i \in Pins |-> <<>>], qs |-> qs,
               cnt |-> active_cnt, active_input |-> active_input,
               allocs |-> 0, log |-> bypass_log(st, active_cnt) ]
        ELSE [ ret |-> TRUE, st |-> st1,
               out |-> [i \in Pins |-> <<>>], qs |-> qs,
               cnt |-> active_cnt, active_input |-> active_input,
               allocs |-> 0, log |-> bypass_log(st, active_cnt) ]

\* an iteration that throws away what an input holds when it cannot fill a block
process_in_flush(chan, q, samplespertick, threshold, t) ==
    LET bytespertick == samplespertick * 2
        buf == ms_bufferizer_put_from_queue(chan.bufferizer, q)
        rd == ms_bufferizer_read(buf, bytespertick)
        got == rd.ret # 0
        chan1 == [chan EXCEPT !.bufferizer = IF got THEN rd.buf ELSE <<>>,
                              !.input = IF got THEN rd.data ELSE chan.input,
                              !.had_input = got /\ chan.active]
    IN  [ chan |-> channel_flow_control(chan1, threshold, t),
          add |-> IF got /\ chan.active THEN rd.data ELSE <<>> ]

process_in_early(chan, q, samplespertick, threshold, t) ==
    LET bytespertick == samplespertick * 2
        buf == ms_bufferizer_put_from_queue(chan.bufferizer, q)
        chan0 == channel_flow_control([chan EXCEPT !.bufferizer = buf], threshold, t)
        rd == ms_bufferizer_read(chan0.bufferizer, bytespertick)
        got == rd.ret # 0
    IN  [ chan |-> [chan0 EXCEPT !.bufferizer = rd.buf,
                                 !.input = IF got THEN rd.data ELSE chan.input,
                                 !.had_input = got /\ chan.active],
          add |-> IF got /\ chan.active THEN rd.data ELSE <<>> ]

\* one iteration of the input loop of mixer_process, for a linked input:
\* what it makes of the channel, and the block it adds to the sum (none: <<>>)
process_in(chan, q, samplespertick, threshold, t) ==
    LET bytespertick == samplespertick * 2
        buf == ms_bufferizer_put_from_queue(chan.bufferizer, q)
        rd == ms_bufferizer_read(buf, bytespertick)
        got == rd.ret # 0
        chan1 == [chan EXCEPT !.bufferizer = rd.buf,
                              !.input = IF got THEN rd.data ELSE chan.input,
                              !.had_input = got /\ chan.active]
    IN  [ chan |-> channel_flow_control(chan1, threshold, t),
          add |-> IF got /\ chan.active THEN rd.data ELSE <<>> ]

\* the sum after the iterations for pins 0 .. n-1, r[i] being what iteration i made
RECURSIVE sum_loop(_, _, _, _)
sum_loop(r, ins, nsamples, n) ==
    IF n = 0 THEN Zeros(nsamples)
    ELSE IF (n - 1) \in ins /\ r[n - 1].add # <<>>
         THEN accumulate(sum_loop(r, ins, nsamples, n - 1), r[n - 1].add, nsamples)
         ELSE sum_loop(r, ins, nsamples, n - 1)

\* memset(s->sum, 0), then the input loop
input_loop(st, ins, qs, t) ==
    LET r == [i \in Pins |->
                IF i \in ins
                THEN process_in(st.channels[i], qs[i], st.samplespertick, st.skip_threshold, t)
                ELSE [chan |-> st.channels[i], add |-> <<>>]]
    IN  [st EXCEPT !.channels = [i \in Pins |-> r[i].chan],
                   !.sum = sum_loop(r, ins, st.samplespertick, NPins)]

\* the frame output i receives on a summation tick
process_out(st, i) ==
    LET chan == st.channels[i]
    IN  IF chan.active /\ chan.had_input /\ st.conf_mode
        THEN subtract_and_copy_to_out(st.sum, chan.input, st.samplespertick)
        ELSE copy_to_out(st.sum, st.samplespertick)

\* the allocb calls of the output loop: one per output that excludes its own
\* contribution, and one for the frame the other outputs share
process_allocs(st, outs) ==
    LET served == {i \in Pins : i \in outs /\ st.channels[i].output_enabled}
        own == {i \in served : st.channels[i].active /\ st.channels[i].had_input /\ st.conf_mode}
    IN  Cardinality(own) + (IF served \ own # {} THEN 1 ELSE 0)

\* a tick whose input loop copies the queued frames and leaves them queued
mixer_process_requeue(st, ins, outs, qs, t) ==
    LET cb == mixer_check_bypass(st, ins, outs, qs, t)
    IN  IF cb.ret THEN cb
        ELSE
          LET st2 == input_loop(cb.st, ins, qs, t)
          IN  [ ret |-> FALSE, st |-> st2,
                out |-> [i \in Pins |->
                           IF i \in outs /\ st2.channels[i].output_enabled
                           THEN <<process_out(st2, i)>> ELSE <<>>],
                qs |-> qs,
                cnt |-> cb.cnt, active_input |-> cb.active_input,
                allocs |-> process_allocs(st2, outs), log |-> cb.log ]

mixer_process(st, ins, outs, qs, t) ==
    LET cb == mixer_check_bypass(st, ins, outs, qs, t)
    IN  IF cb.ret THEN cb
        ELSE
          LET st2 == input_loop(cb.st, ins, qs, t)
          IN  [ ret |-> FALSE, st |-> st2,
                out |-> [i \in Pins |->
                           IF i \in outs /\ st2.channels[i].output_enabled
                           THEN <<process_out(st2, i)>> ELSE <<>>],
                qs |-> [i \in Pins |-> IF i \in ins THEN <<>> ELSE qs[i]],
                cnt |-> cb.cnt, active_input |-> cb.active_input,
                allocs |-> process_allocs(st2, outs), log |-> cb.log ]

mixer_set_rate_any(st, rate) ==
    [ret |-> 0, st |-> [st EXCEPT !.rate = rate]]

\* a set_rate that recomputes the block size at once
mixer_set_rate_resize(st, rate) ==
    IF CMod(rate, RATE_UNIT) = 0
    THEN [ret |-> 0,
          st |-> [st EXCEPT !.rate = rate,
                            !.samplespertick = CDiv(st.nchannels * rate * interval, 1000)]]
    ELSE [ret |-> -1, st |-> st]

mixer_set_rate(st, rate) ==
    IF CMod(rate, RATE_UNIT) = 0
    THEN [ret |-> 0, st |-> [st EXCEPT !.rate = rate]]
    ELSE [ret |-> -1, st |-> st]

mixer_get_rate(st) == [ret |-> 0, data |-> st.rate]

mixer_set_nchannels(st, n) == [ret |-> 0, st |-> [st EXCEPT !.nchannels = n]]

mixer_set_input_gain_done(st) == [ret |-> 0, st |-> st]

mixer_set_input_gain(st) == [ret |-> -1, st |-> st]

mixer_set_active_unchecked(st, pin, val) ==
    [ret |-> 0,
     st |-> IF pin \in Pins THEN [st EXCEPT !.channels[pin].active = val] ELSE st]

mixer_set_active(st, pin, val) ==
    IF pin < 0 \/ pin >= MIXER_MAX_CHANNELS
    THEN [ret |-> -1, st |-> st]
    ELSE [ret |-> 0,
          st |-> IF pin \in Pins THEN [st EXCEPT !.channels[pin].active = val] ELSE st]

\* an enable_output that leaves the cached single_output flag as it was
mixer_enable_output_stale(st, outs, pin, val) ==
    IF pin < 0 \/ pin >= MIXER_MAX_CHANNELS
    THEN [ret |-> -1, st |-> st]
    ELSE [ret |-> 0,
          st |-> IF pin \in Pins THEN [st EXCEPT !.channels[pin].output_enabled = val] ELSE st]

mixer_enable_output(st, outs, pin, val) ==
    IF pin < 0 \/ pin >= MIXER_MAX_CHANNELS
    THEN [ret |-> -1, st |-> st]
    ELSE LET st1 == IF pin \in Pins THEN [st EXCEPT !.channels[pin].output_enabled = val] ELSE st
         IN  [ret |-> 0, st |-> [st1 EXCEPT !.single_output = has_single_output(st1, outs)]]

mixer_set_conference_mode(st, val) == [ret |-> 0, st |-> [st EXCEPT !.conf_mode = val]]

(* ------------------------- audiomixer_avx2.c --------------------------- *)
\* the samples that whole vectors of VLENGTH lanes cover
VecCover(nsamples) == CDiv(nsamples, VLENGTH) * VLENGTH
\* a buffer as it reads when its unwritten samples read as g
ReadAs(buf, g) == [k \in 1 .. Len(buf) |-> IF buf[k] = UNINIT THEN g ELSE buf[k]]

avx_accumulate(sum, contrib, elems) ==
    [k \in 1 .. Len(sum) |-> IF k <= elems * VLENGTH THEN sum[k] + contrib[k] ELSE sum[k]]

avx_saturate(x) ==
    IF x > SHRT_MAX THEN SHRT_MAX ELSE IF x < -SHRT_MAX THEN -SHRT_MAX ELSE ToShort(x)

avx_channel_init ==
    [ bufferizer |-> <<>>, input |-> <<>>, min_fullness |-> 0,
      last_flow_control |-> 0, last_activity |-> 0,
      active |-> TRUE, output_enabled |-> TRUE ]

avx_channel_prepare(chan, bytes_per_tick) ==
    [chan EXCEPT !.input = Fill(CDiv(bytes_per_tick, 2), UNINIT),
                 !.last_flow_control = NO_TIME,
                 !.last_activity = NO_TIME]

avx_channel_process_in(chan, q, nsamples) ==
    LET buf == ms_bufferizer_put_from_queue(chan.bufferizer, q)
        rd == ms_bufferizer_read(buf, nsamples * 2)
    IN  IF rd.ret # 0
        THEN [ chan |-> [chan EXCEPT !.bufferizer = rd.buf, !.input = rd.data],
               add |-> IF chan.active THEN rd.data ELSE <<>> ]
        ELSE [ chan |-> [chan EXCEPT !.bufferizer = rd.buf, !.input = Zeros(nsamples)],
               add |-> <<>> ]

\* the samples of the frame; those past the last whole vector stay unwritten
avx_channel_process_out(chan, sum, nsamples, g) ==
    LET own == ReadAs(chan.input, g)
    IN  [k \in 1 .. nsamples |->
           IF k > VecCover(nsamples) THEN UNINIT
           ELSE IF chan.active THEN avx_saturate(sum[k] - own[k])
           ELSE avx_saturate(sum[k])]

avx_make_output(sum, nwords) ==
    [k \in 1 .. nwords |-> IF k > VecCover(nwords) THEN UNINIT ELSE avx_saturate(sum[k])]

avx_mixer_init ==
    [ nchannels |-> 1, rate |-> DEFAULT_RATE, bytespertick |-> 0,
      channels |-> [i \in Pins |-> avx_channel_init],
      sum |-> <<>>, conf_mode |-> FALSE, skip_threshold |-> 0,
      bypass_mode |-> FALSE, single_output |-> FALSE ]

avx_mixer_preprocess(st, outs) ==
    LET bpt == CDiv(2 * st.nchannels * st.rate * interval, 1000)
        st1 == [st EXCEPT
                  !.bytespertick = bpt,
                  !.sum = Fill(CDiv(bpt, 2), UNINIT),
                  !.channels = [i \in Pins |-> avx_channel_prepare(st.channels[i], bpt)],
                  !.skip_threshold = bpt * 2,
                  !.bypass_mode = FALSE]
    IN  [st1 EXCEPT !.single_output = has_single_output(st1, outs)]

avx_mixer_postprocess(st) ==
    [st EXCEPT !.sum = <<>>,
               !.channels = [i \in Pins |-> channel_unprepare(st.channels[i])]]

RECURSIVE avx_sum_loop(_, _, _, _)
avx_sum_loop(r, ins, nsamples, n) ==
    IF n = 0 THEN Zeros(nsamples)
    ELSE IF (n - 1) \in ins /\ r[n - 1].add # <<>>
         THEN avx_accumulate(avx_sum_loop(r, ins, nsamples, n - 1), r[n - 1].add,
                             CDiv(nsamples, VLENGTH))
         ELSE avx_sum_loop(r, ins, nsamples, n - 1)

\* memset(s->sum, 0), then the input loop
avx_input_loop(st, ins, qs, t) ==
    LET nwords == CDiv(st.bytespertick, 2)
        r == [i \in Pins |->
                IF i \in ins
                THEN avx_channel_process_in(st.channels[i], qs[i], nwords)
                ELSE [chan |-> st.channels[i], add |-> <<>>]]
    IN  [st EXCEPT
           !.channels = [i \in Pins |->
                           IF i \in ins
                           THEN channel_flow_control(r[i].chan, st.skip_threshold, t)
                           ELSE st.channels[i]],
           !.sum = avx_sum_loop(r, ins, nwords, NPins)]

avx_mixer_process(st, ins, outs, qs, t, g) ==
    LET cb == mixer_check_bypass(st, ins, outs, qs, t)
    IN  IF cb.ret THEN cb
        ELSE
          LET st2 == avx_input_loop(cb.st, ins, qs, t)
              nwords == CDiv(st2.bytespertick, 2)
          IN  [ ret |-> FALSE, st |-> st2,
                out |-> [i \in Pins |->
                           IF i \in outs /\ st2.channels[i].output_enabled
                           THEN IF ~st2.conf_mode
                                THEN <<avx_make_output(st2.sum, nwords)>>
                                ELSE <<avx_channel_process_out(st2.channels[i], st2.sum, nwords, g)>>
                           ELSE <<>>],
                qs |-> [i \in Pins |-> IF i \in ins THEN <<>> ELSE qs[i]],
                cnt |-> cb.cnt, active_input |-> cb.active_input ]

\* the values to draw for unwritten memory at a tick: one is enough unless conference
\* mode is on and some linked output's channel has unwritten samples in its input
garbage_choices(st, outs) ==
    IF st.conf_mode /\ \E i \in outs : \E k \in 1 .. Len(st.channels[i].input) :
                          st.channels[i].input[k] = UNINIT
    THEN GarbageFill
    ELSE {0}

avx_mixer_set_rate(st, rate) ==
    IF rate = 8000 \/ rate = 16000
    THEN [ret |-> 0, st |-> [st EXCEPT !.rate = rate]]
    ELSE [ret |-> -1, st |-> st]

(* ----------------------------- the machine ----------------------------- *)
NoQueues == [i \in Pins |-> <<>>]
\* last, when the latest operation was no tick
NoTick == [tick |-> FALSE, cnt |-> 0, active_input |-> -1, preq |-> NoQueues, prebuf |-> NoQueues, allocs |-> 0]

\* the accumulator after the memset of a tick
NoAcc == [n |-> 0, sum |-> Zeros(1), vsum |-> Zeros(VLENGTH), own |-> 0, done |-> FALSE, out |-> 0, vout |-> 0]
\* no value has been saturated
(* ----------------------------- eventqueue.c ------------------------------ *)
\* the filters that notify, the null pointer, and the threads that call ms_filter_notify
Filters == {"F1", "F2"}
NULL == "NULL"
Writers == 1 .. NWriters
\* f->notify_callbacks: F1 has two asynchronous callbacks, the first of which may
\* destroy F1; F2 has a synchronous and an asynchronous one
notify_callbacks(f) ==
    IF f = "F1"
    THEN << [synchronous |-> FALSE, destroys |-> TRUE], [synchronous |-> FALSE, destroys |-> FALSE] >>
    ELSE << [synchronous |-> TRUE, destroys |-> FALSE], [synchronous |-> FALSE, destroys |-> FALSE] >>

\* the queue operations of the event queue
NoEvent == [filter |-> NULL, ev_id |-> 0]
putq(q, m) == Append(q, m)
remq_all(q, f) == SelectSeq(q, LAMBDA e : e.filter # f)

\* q, current_notifier: the MSEventQueue; the rest is where the threads are (pump,
\* wr) and what has happened (alive, issued, queued, cleaned, log, dead), returned the filter whose
\* ms_event_queue_clean has just returned;
\* ev_id numbers the notifications in the order they were raised
ms_event_queue_new ==
    [ q |-> <<>>, current_notifier |-> NULL,
      pump |-> [pc |-> "idle", ev |-> NoEvent, elem |-> 0],
      wr |-> [w \in Writers |-> [pc |-> "idle", ev |-> NoEvent]],
      alive |-> Filters, issued |-> 0, queued |-> <<>>, cleaned |-> {}, log |-> <<>>,
      dead |-> [f \in Filters |-> -1], returned |-> NULL ]

\* the test of write_event: the queue is stalled
write_event_stalled(q) == Len(q) > MS_EVENT_QUEUE_MAX_SIZE

\* a clean that removes the first event of the filter only
ms_event_queue_clean_first(e, destroyed) ==
    LET hit == {k \in 1 .. Len(e.q) : e.q[k].filter = destroyed}
        first == CHOOSE k \in hit : \A j \in hit : k <= j
    IN  [e EXCEPT
           !.q = IF hit = {} THEN e.q
                 ELSE SubSeq(e.q, 1, first - 1) \o SubSeq(e.q, first + 1, Len(e.q)),
           !.current_notifier = IF e.current_notifier = destroyed THEN NULL
                                ELSE e.current_notifier,
           !.cleaned = IF hit = {} THEN e.cleaned ELSE e.cleaned \cup {e.q[first].ev_id}]

\* ms_event_queue_clean: every event of the filter leaves the queue, and the pump is
\* told when it is invoking the callbacks of that filter
ms_event_queue_clean(e, destroyed) ==
    [e EXCEPT
       !.q = remq_all(e.q, destroyed),
       !.current_notifier = IF e.current_notifier = destroyed THEN NULL
                            ELSE e.current_notifier,
       !.cleaned = e.cleaned \cup {e.q[k].ev_id : k \in {j \in 1 .. Len(e.q) : e.q[j].filter = destroyed}}]

\* ms_filter_clean_pending_events, called by a callback: the pending events of the filter are
\* cleaned and the filter is gone
ms_filter_clean_pending_events(e, f) ==
    [ms_event_queue_clean(e, f) EXCEPT !.alive = e.alive \ {f}, !.dead[f] = Len(e.log)]

\* the callbacks of filter f that ms_filter_invoke_callbacks invokes for event id in
\* mode OnlySynchronous, in the order of the list
RECURSIVE synchronous_calls(_, _, _)
synchronous_calls(f, id, k) ==
    IF k > Len(notify_callbacks(f)) THEN <<>>
    ELSE (IF notify_callbacks(f)[k].synchronous
          THEN << [filter |-> f, ev_id |-> id, cb |-> k, mode |-> "sync"] >> ELSE <<>>)
         \o synchronous_calls(f, id, k + 1)

\* an iteration that goes on to the next callback though the filter was destroyed
ms_filter_invoke_callbacks_on(e, destroy) ==
    LET f == e.pump.ev.filter
        k == e.pump.elem
    IN  IF k > Len(notify_callbacks(f))
        THEN [e EXCEPT !.current_notifier = NULL, !.pump = [pc |-> "read", ev |-> NoEvent, elem |-> 0]]
        ELSE IF notify_callbacks(f)[k].synchronous
        THEN [e EXCEPT !.pump.elem = k + 1]
        ELSE LET e1 == [e EXCEPT !.log = Append(@, [filter |-> f, ev_id |-> e.pump.ev.ev_id,
                                                    cb |-> k, mode |-> "async"])]
                 e2 == IF destroy THEN ms_filter_clean_pending_events(e1, f) ELSE e1
             IN  [e2 EXCEPT !.pump.elem = k + 1]

\* one iteration of the loop of ms_filter_invoke_callbacks in mode OnlyAsynchronous, as
\* read_event calls it on &q->current_notifier, and the end of read_event after the loop
ms_filter_invoke_callbacks(e, destroy) ==
    LET f == e.pump.ev.filter
        k == e.pump.elem
    IN  IF k > Len(notify_callbacks(f))
        THEN [e EXCEPT !.current_notifier = NULL, !.pump = [pc |-> "read", ev |-> NoEvent, elem |-> 0]]
        ELSE IF notify_callbacks(f)[k].synchronous
        THEN [e EXCEPT !.pump.elem = k + 1]
        ELSE LET e1 == [e EXCEPT !.log = Append(@, [filter |-> f, ev_id |-> e.pump.ev.ev_id,
                                                    cb |-> k, mode |-> "async"])]
                 e2 == IF destroy THEN ms_filter_clean_pending_events(e1, f) ELSE e1
             IN  IF e2.current_notifier = NULL
                 THEN [e2 EXCEPT !.pump = [pc |-> "read", ev |-> NoEvent, elem |-> 0]]
                 ELSE [e2 EXCEPT !.pump.elem = k + 1]

\* no input has been fed alone yet
NoQuiet == [pin |-> -1, since |-> NO_TIME, session |-> NO_TIME]

\* no flow-control invocation yet, on a channel that is not prepared
NoFlow ==
    [ n |-> 0, prepared |-> FALSE, called |-> FALSE, first |-> FALSE, t |-> 0,
      pre |-> channel_init, chan |-> channel_init,
      boundary |-> NO_TIME, obs |-> {}, start |-> NO_TIME, seen |-> {} ]

NoSat == [step |-> 0, x |-> 0, once |-> 0, twice |-> 0, vonce |-> 0, vtwice |-> 0]
\* no control call yet
NoCall == [op |-> "none", arg |-> 0, val |-> FALSE, ret |-> 0, vret |-> 0]
\* nobody holds the lock, no tick and no control call is in flight
NoConc == [lock |-> {}, tpc |-> "idle", waited |-> FALSE, idx |-> 0, q |-> <<>>, cpc |-> "idle", val |-> FALSE, conf_on |-> FALSE]

InitOn(topologies) ==
    /\ \E topo \in topologies : inputs = topo.in /\ outputs = topo.out
    /\ inq = NoQueues
    /\ time = 0
    /\ phase = "init"
    /\ s = mixer_init
    /\ v = avx_mixer_init
    /\ outq = NoQueues
    /\ voutq = NoQueues
    /\ last = NoTick
    /\ budget = [ticks |-> 0, ctl |-> 0]
    /\ hist = [fed |-> <<>>, got |-> NoQueues, first |-> NO_TIME, every |-> TRUE,
               log |-> <<>>, mark |-> 0]
    /\ conc = NoConc
    /\ call = NoCall
    /\ acc = NoAcc
    /\ sat = NoSat
    /\ fc = NoFlow
    /\ quiet = NoQuiet
    /\ evq = ms_event_queue_new

Init == InitOn(Topologies)

Spend(what) == budget' = [budget EXCEPT ![what] = @ + 1]
\* an operation is explored only while a tick can still follow and observe it
TickLeft == budget.ticks < MaxTicks
\* the frames of the latest tick have been taken by the filters downstream
Consumed == outq' = NoQueues /\ voutq' = NoQueues /\ last' = NoTick

Prepare ==
    /\ phase \in {"init", "unprepared"}
    /\ s' = mixer_preprocess(s, outputs)
    /\ v' = avx_mixer_preprocess(v, outputs)
    /\ phase' = "prepared"
    /\ hist' = [hist EXCEPT !.mark = Len(hist.log)]
    /\ Consumed
    /\ UNCHANGED <<evq, quiet, fc, sat, acc, inputs, outputs, inq, time, budget, call, conc>>

Unprepare ==
    /\ phase \in {"prepared", "running"}
    /\ s' = mixer_postprocess(s)
    /\ v' = avx_mixer_postprocess(v)
    /\ phase' = "unprepared"
    /\ Consumed
    /\ UNCHANGED <<evq, quiet, fc, sat, acc, inputs, outputs, inq, time, budget, hist, call, conc>>

\* one tick: the producers have queued arr since the latest tick, the ticker has
\* advanced by step, and unwritten memory reads as g; a solo run keeps its history
TickOn(arrivals, maxticks, solo) ==
    /\ phase \in {"prepared", "running"}
    /\ budget.ticks < maxticks
    /\ \E step \in TickSteps : \E arr \in arrivals : \E g \in garbage_choices(v, outputs) :
         \E qs \in {[i \in Pins |-> IF i \in inputs THEN inq[i] \o arr[i] ELSE inq[i]]} :
         \E r \in {mixer_process(s, inputs, outputs, qs, time + step)} :
         \E rv \in {avx_mixer_process(v, inputs, outputs, qs, time + step, g)} :
             /\ time' = time + step
             /\ s' = r.st
             /\ v' = rv.st
             /\ outq' = r.out
             /\ voutq' = rv.out
             /\ inq' = r.qs
             /\ last' = [tick |-> TRUE, cnt |-> r.cnt,
                         active_input |-> r.active_input, preq |-> qs,
                         prebuf |-> [i \in Pins |-> s.channels[i].bufferizer],
                         allocs |-> r.allocs]
             /\ hist' = IF solo
                        THEN [fed |-> hist.fed \o Flatten(arr[0]),
                              got |-> [i \in Pins |-> hist.got[i] \o Flatten(r.out[i])],
                              first |-> IF hist.first = NO_TIME THEN time + step
                                        ELSE hist.first,
                              every |-> hist.every /\ arr[0] # <<>>,
                              log |-> hist.log \o r.log, mark |-> hist.mark]
                        ELSE hist
    /\ phase' = "running"
    /\ Spend("ticks")
    /\ UNCHANGED <<evq, quiet, fc, sat, acc, inputs, outputs, call, conc>>

Tick == TickOn(Arrivals, MaxTicks, FALSE)

\* a tick of a run that watches for an input that is fed alone
QuietTick ==
    /\ phase \in {"prepared", "running"}
    /\ budget.ticks < MaxQuietTicks
    /\ \E step \in QuietSteps : \E arr \in QuietArrivals : \E g \in garbage_choices(v, outputs) :
         \E qs \in {[i \in Pins |-> IF i \in inputs THEN inq[i] \o arr[i] ELSE inq[i]]} :
         \E r \in {mixer_process(s, inputs, outputs, qs, time + step)} :
         \E rv \in {avx_mixer_process(v, inputs, outputs, qs, time + step, g)} :
         \E fed \in {{i \in inputs : arr[i] # <<>>}} :
             /\ time' = time + step
             /\ s' = r.st
             /\ v' = rv.st
             /\ outq' = r.out
             /\ voutq' = rv.out
             /\ inq' = r.qs
             /\ last' = [tick |-> TRUE, cnt |-> r.cnt,
                         active_input |-> r.active_input, preq |-> qs,
                         prebuf |-> [i \in Pins |-> s.channels[i].bufferizer],
                         allocs |-> r.allocs]
             /\ \E session \in {IF phase = "prepared" THEN time + step ELSE quiet.session} :
                  quiet' = IF Cardinality(fed) # 1
                           THEN [NoQuiet EXCEPT !.session = session]
                           ELSE IF fed = {quiet.pin}
                           THEN [quiet EXCEPT !.session = session]
                           ELSE [pin |-> CHOOSE i \in fed : TRUE, since |-> time + step,
                                 session |-> session]
    /\ phase' = "running"
    /\ Spend("ticks")
    /\ UNCHANGED <<evq, fc, sat, acc, inputs, outputs, call, conc, hist>>

(* the event queue: threads that notify, the thread that pumps and cleans *)
\* ms_filter_notify up to the test of write_event: the synchronous callbacks, then
\* the event is dropped when the queue is stalled
EvNotify(w) ==
    /\ evq.wr[w].pc = "idle"
    /\ evq.issued < MaxNotify
    /\ \E f \in evq.alive :
         evq' = [evq EXCEPT
                   !.issued = @ + 1,
                   !.log = @ \o synchronous_calls(f, evq.issued + 1, 1),
                   !.wr[w] = IF write_event_stalled(evq.q) THEN @
                             ELSE [pc |-> "put", ev |-> [filter |-> f, ev_id |-> evq.issued + 1]],
                   !.returned = NULL]
    /\ UNCHANGED <<quiet, fc, sat, acc, call, inputs, outputs, inq, time, phase, s, v, outq, voutq, last, budget, hist, conc>>

\* the putq of write_event, under the mutex
EvPut(w) ==
    /\ evq.wr[w].pc = "put"
    /\ evq' = [evq EXCEPT
                 !.q = putq(@, evq.wr[w].ev),
                 !.queued = Append(@, evq.wr[w].ev),
                 !.wr[w] = [pc |-> "idle", ev |-> NoEvent],
                 !.returned = NULL]
    /\ UNCHANGED <<quiet, fc, sat, acc, call, inputs, outputs, inq, time, phase, s, v, outq, voutq, last, budget, hist, conc>>

\* ms_event_queue_pump is called
EvPumpCall ==
    /\ evq.pump.pc = "idle"
    /\ evq' = [evq EXCEPT !.pump.pc = "read", !.returned = NULL]
    /\ UNCHANGED <<quiet, fc, sat, acc, call, inputs, outputs, inq, time, phase, s, v, outq, voutq, last, budget, hist, conc>>

\* read_event up to the call of ms_filter_invoke_callbacks: getq under the mutex; the
\* pump returns when there is no event
EvReadEvent ==
    /\ evq.pump.pc = "read"
    /\ evq' = IF evq.q = <<>>
              THEN [evq EXCEPT !.pump.pc = "idle", !.returned = NULL]
              ELSE [evq EXCEPT
                      !.q = Tail(@),
                      !.current_notifier = Head(evq.q).filter,
                      !.pump = [pc |-> "invoke", ev |-> Head(evq.q), elem |-> 1],
                      !.returned = NULL]
    /\ UNCHANGED <<quiet, fc, sat, acc, call, inputs, outputs, inq, time, phase, s, v, outq, voutq, last, budget, hist, conc>>

\* a callback destroys its filter only when no thread is about to queue an event of it
MayDestroy(f, k) ==
    /\ k <= Len(notify_callbacks(f))
    /\ notify_callbacks(f)[k].destroys
    /\ \A w \in Writers : evq.wr[w].pc = "put" => evq.wr[w].ev.filter # f

\* the next callback of the event the pump is delivering
EvInvoke ==
    /\ evq.pump.pc = "invoke"
    /\ \E destroy \in (IF MayDestroy(evq.pump.ev.filter, evq.pump.elem) THEN BOOLEAN ELSE {FALSE}) :
         evq' = [ms_filter_invoke_callbacks(evq, destroy) EXCEPT !.returned = NULL]
    /\ UNCHANGED <<quiet, fc, sat, acc, call, inputs, outputs, inq, time, phase, s, v, outq, voutq, last, budget, hist, conc>>

\* ms_event_queue_clean(q, f), called by the thread that pumps, between two pumps
EvClean ==
    /\ evq.pump.pc = "idle"
    /\ \E f \in evq.alive :
         evq' = [ms_event_queue_clean(evq, f) EXCEPT !.returned = f]
    /\ UNCHANGED <<quiet, fc, sat, acc, call, inputs, outputs, inq, time, phase, s, v, outq, voutq, last, budget, hist, conc>>

NextEvq ==
    \/ \E w \in Writers : EvNotify(w)
    \/ \E w \in Writers : EvPut(w)
    \/ EvPumpCall
    \/ EvReadEvent
    \/ EvInvoke
    \/ EvClean

SpecEvq == Init /\ [][NextEvq]_vars

(* the event queue under load: threads that notify one filter faster than the pump
   delivers; what the callbacks do is left out, they do not touch the queue *)
\* ms_filter_notify up to the test of write_event, which reads q_mcount without the mutex
StallNotify(w) ==
    /\ evq.wr[w].pc = "idle"
    /\ evq' = [evq EXCEPT
                 !.wr[w] = IF write_event_stalled(evq.q) THEN @
                           ELSE [pc |-> "put", ev |-> [filter |-> "F2", ev_id |-> 0]]]
    /\ UNCHANGED <<quiet, fc, sat, acc, call, inputs, outputs, inq, time, phase, s, v, outq, voutq, last, budget, hist, conc>>

\* the putq of write_event, under the mutex
StallPut(w) ==
    /\ evq.wr[w].pc = "put"
    /\ evq' = [evq EXCEPT
                 !.q = putq(@, evq.wr[w].ev),
                 !.wr[w] = [pc |-> "idle", ev |-> NoEvent]]
    /\ UNCHANGED <<quiet, fc, sat, acc, call, inputs, outputs, inq, time, phase, s, v, outq, voutq, last, budget, hist, conc>>

\* one read_event of ms_event_queue_pump: getq under the mutex, then the callbacks
StallPump ==
    /\ evq.q # <<>>
    /\ evq' = [evq EXCEPT !.q = Tail(@)]
    /\ UNCHANGED <<quiet, fc, sat, acc, call, inputs, outputs, inq, time, phase, s, v, outq, voutq, last, budget, hist, conc>>

NextStall ==
    \/ \E w \in Writers : StallNotify(w)
    \/ \E w \in Writers : StallPut(w)
    \/ StallPump

SpecStall == Init /\ [][NextStall]_vars

NextQuiet ==
    \/ Prepare
    \/ QuietTick
    \/ Unprepare

SpecQuiet == Init /\ [][NextQuiet]_vars

\* a tick of a run in which input 0 alone is ever fed
SoloTick == TickOn(SoloArrivals, MaxSoloTicks, TRUE)

Control(r, rv) ==
    /\ budget.ctl < MaxCtl
    /\ TickLeft
    /\ s' = r.st
    /\ v' = rv.st
    /\ Consumed
    /\ Spend("ctl")
    /\ UNCHANGED <<evq, quiet, fc, sat, acc, inputs, outputs, inq, time, phase, hist, call, conc>>

SetRate ==
    \E rate \in RateArgs : Control(mixer_set_rate(s, rate), avx_mixer_set_rate(v, rate))

SetActive ==
    \E pin \in PinArgs : \E a \in BOOLEAN :
        Control(mixer_set_active(s, pin, a), mixer_set_active(v, pin, a))

EnableOutput ==
    \E pin \in PinArgs : \E e \in BOOLEAN :
        Control(mixer_enable_output(s, outputs, pin, e),
                mixer_enable_output(v, outputs, pin, e))

SetConferenceMode ==
    \E on \in BOOLEAN :
        Control(mixer_set_conference_mode(s, on), mixer_set_conference_mode(v, on))

Next ==
    \/ Prepare
    \/ Tick
    \/ SetRate
    \/ SetActive
    \/ EnableOutput
    \/ SetConferenceMode

Spec == Init /\ [][Next]_vars

\* the runs in which input 0 alone is fed and no control call is made
NextSolo ==
    \/ Prepare
    \/ SoloTick

SpecSolo == Init /\ [][NextSolo]_vars

(* ------------- a filter that is prepared more than once ---------------- *)
LifeTick == TickOn(SoloArrivals, MaxLifeTicks, TRUE)

NextLife ==
    \/ Prepare
    \/ LifeTick
    \/ Unprepare

SpecLife == Init /\ [][NextLife]_vars

(* ------------- the control surface and the life of the filter ----------- *)
CtlTick == TickOn(SoloArrivals, MaxCtlTicks, TRUE)

\* a control call in any phase of the filter; the queues are left alone
CtlCall(op, arg, val, r, rv) ==
    /\ budget.ctl < MaxCtlCalls
    /\ s' = r.st
    /\ v' = rv.st
    /\ call' = [op |-> op, arg |-> arg, val |-> val, ret |-> r.ret, vret |-> rv.ret]
    /\ Spend("ctl")
    /\ UNCHANGED <<evq, quiet, fc, sat, acc, inputs, outputs, inq, time, phase, outq, voutq, last, hist, conc>>

CtlSetRate ==
    \E rate \in CtlRateArgs :
        CtlCall("set_rate", rate, FALSE, mixer_set_rate(s, rate), avx_mixer_set_rate(v, rate))

CtlSetActive ==
    \E pin \in CtlPinArgs : \E a \in BOOLEAN :
        CtlCall("set_active", pin, a, mixer_set_active(s, pin, a), mixer_set_active(v, pin, a))

CtlEnableOutput ==
    \E pin \in CtlPinArgs : \E e \in BOOLEAN :
        CtlCall("enable_output", pin, e, mixer_enable_output(s, outputs, pin, e),
                mixer_enable_output(v, outputs, pin, e))

CtlSetInputGain ==
    \E pin \in CtlPinArgs :
        CtlCall("set_input_gain", pin, FALSE, mixer_set_input_gain(s), mixer_set_input_gain(v))

NextCtl ==
    \/ Prepare
    \/ CtlTick
    \/ Unprepare
    \/ CtlSetRate
    \/ CtlSetActive
    \/ CtlEnableOutput
    \/ CtlSetInputGain

SpecCtl == Init /\ [][NextCtl]_vars

(* ----------------- one lane of the accumulator in a tick --------------- *)
\* memset(s->sum, 0, ..) at the start of the summation of a tick
AccStart ==
    /\ acc.done
    /\ acc' = NoAcc
    /\ UNCHANGED <<evq, quiet, fc, sat, inputs, outputs, inq, time, phase, s, v, outq, voutq, last, budget, hist, call, conc>>

\* one more channel, of at most MIXER_MAX_CHANNELS, contributes the sample x
AccAdd ==
    /\ ~acc.done
    /\ acc.n < MIXER_MAX_CHANNELS
    /\ \E x \in ExtremeSamples :
         acc' = [acc EXCEPT !.n = @ + 1,
                            !.sum = accumulate(@, <<x>>, 1),
                            !.vsum = avx_accumulate(@, Fill(VLENGTH, x), 1),
                            !.own = x]
    /\ UNCHANGED <<evq, quiet, fc, sat, inputs, outputs, inq, time, phase, s, v, outq, voutq, last, budget, hist, call, conc>>

\* the output of the latest channel in conference mode
AccOut ==
    /\ ~acc.done
    /\ acc.n > 0
    /\ acc' = [acc EXCEPT !.done = TRUE,
                          !.out = subtract_and_copy_to_out(acc.sum, <<acc.own>>, 1)[1],
                          !.vout = avx_saturate(acc.vsum[VLENGTH] - acc.own)]
    /\ UNCHANGED <<evq, quiet, fc, sat, inputs, outputs, inq, time, phase, s, v, outq, voutq, last, budget, hist, call, conc>>

NextAcc ==
    \/ AccStart
    \/ AccAdd
    \/ AccOut

SpecAcc == Init /\ [][NextAcc]_vars

(* ------------------------ the saturation of a value -------------------- *)
\* a value of a lane of the accumulator
SatPick ==
    /\ \E x \in SatArgs : sat' = [NoSat EXCEPT !.step = 1, !.x = x]
    /\ UNCHANGED <<evq, quiet, fc, acc, call, inputs, outputs, inq, time, phase, s, v, outq, voutq, last, budget, hist, conc>>

\* saturate_sample and saturate applied to it
SatOnce ==
    /\ sat.step = 1
    /\ sat' = [sat EXCEPT !.step = 2, !.once = saturate_sample(sat.x),
                          !.vonce = avx_saturate(sat.x)]
    /\ UNCHANGED <<evq, quiet, fc, acc, call, inputs, outputs, inq, time, phase, s, v, outq, voutq, last, budget, hist, conc>>

\* and applied to the result
SatTwice ==
    /\ sat.step = 2
    /\ sat' = [sat EXCEPT !.step = 3, !.twice = saturate_sample(sat.once),
                          !.vtwice = avx_saturate(sat.vonce)]
    /\ UNCHANGED <<evq, quiet, fc, acc, call, inputs, outputs, inq, time, phase, s, v, outq, voutq, last, budget, hist, conc>>

(* one channel under flow control: channel_prepare, then channel_flow_control at the
   end of the input-loop iteration of successive summation ticks *)
\* the samples of a tick and the trim threshold mixer_preprocess computes at the default rate
FlowSamples == mixer_preprocess(mixer_init, {}).samplespertick
FlowThreshold == mixer_preprocess(mixer_init, {}).skip_threshold

FcPrepare ==
    /\ fc' = [fc EXCEPT !.prepared = TRUE, !.called = FALSE, !.first = FALSE,
                        !.chan = channel_prepare(fc.chan, FlowSamples),
                        !.start = NO_TIME, !.seen = {}]
    /\ UNCHANGED <<evq, quiet, sat, acc, call, inputs, outputs, inq, time, phase, s, v, outq, voutq, last, budget, hist, conc>>

\* the invocation at time fc.t + dt, on a bufferizer that holds fill samples once the
\* tick block is drained
FcInvoke ==
    /\ fc.prepared
    /\ fc.n < MaxFlowCalls
    /\ \E fill \in FlowFills : \E dt \in FlowSteps :
         \E pre \in {[fc.chan EXCEPT !.bufferizer = [k \in 1 .. fill |-> k]]} :
         \E first \in {fc.start = NO_TIME} :
         \E obs \in {IF first THEN {} ELSE fc.seen \cup {2 * fill}} :
         \E ends \in {first \/ fc.t + dt - fc.start >= FLOW_CONTROL_WINDOW} :
             fc' = [ n |-> fc.n + 1, prepared |-> TRUE, called |-> TRUE, first |-> first,
                     t |-> fc.t + dt, pre |-> pre,
                     chan |-> channel_flow_control(pre, FlowThreshold, fc.t + dt),
                     boundary |-> fc.start, obs |-> obs,
                     start |-> IF ends THEN fc.t + dt ELSE fc.start,
                     seen |-> IF ends THEN {} ELSE obs ]
    /\ UNCHANGED <<evq, quiet, sat, acc, call, inputs, outputs, inq, time, phase, s, v, outq, voutq, last, budget, hist, conc>>

NextFlow ==
    \/ FcPrepare
    \/ FcInvoke

SpecFlow == Init /\ [][NextFlow]_vars

NextSat ==
    \/ SatPick
    \/ SatOnce
    \/ SatTwice

SpecSat == Init /\ [][NextSat]_vars

(* ---------------- a tick interleaved with the control thread ------------ *)
\* ms_filter_lock and ms_filter_unlock, by the thread who
ms_filter_lock(lock, who) == lock \cup {who}
ms_filter_unlock(lock, who) == lock \ {who}
\* ms_filter_lock returns once nobody holds the lock
lock_free(lock) == lock = {}

\* the ticker calls mixer_process, which asks for the lock
ConcTickCall ==
    /\ phase \in {"prepared", "running"}
    /\ conc.tpc \in {"idle", "done"}
    /\ budget.ticks < MaxConcTicks
    /\ conc' = [conc EXCEPT !.tpc = "lock", !.waited = ~lock_free(conc.lock)]
    /\ Spend("ticks")
    /\ UNCHANGED <<evq, quiet, fc, sat, acc, call, inputs, outputs, inq, time, phase, s, v, outq, voutq, last, hist>>

\* mixer_process up to its output loop: the lock, mixer_check_bypass, the input loop
ConcTickBegin ==
    /\ conc.tpc = "lock"
    /\ lock_free(conc.lock)
    /\ \E step \in TickSteps : \E arr \in ConcArrivals :
         \E qs \in {[i \in Pins |-> IF i \in inputs THEN inq[i] \o arr[i] ELSE inq[i]]} :
         \E cb \in {mixer_check_bypass(s, inputs, outputs, qs, time + step)} :
             /\ time' = time + step
             /\ s' = IF cb.ret THEN cb.st ELSE input_loop(cb.st, inputs, qs, time + step)
             /\ inq' = IF cb.ret THEN cb.qs
                       ELSE [i \in Pins |-> IF i \in inputs THEN <<>> ELSE qs[i]]
             /\ conc' = [conc EXCEPT
                            !.lock = ms_filter_lock(@, "tick"),
                            !.tpc = IF cb.cnt = 0 THEN "unlock"
                                    ELSE IF cb.cnt = 1 THEN "dispatch" ELSE "out",
                            !.idx = 0,
                            !.conf_on = s.conf_mode,
                            !.q = IF cb.cnt = 1 THEN qs[cb.active_input] ELSE <<>>]
             /\ last' = [tick |-> TRUE, cnt |-> cb.cnt,
                         active_input |-> cb.active_input, preq |-> qs,
                         prebuf |-> [i \in Pins |-> s.channels[i].bufferizer],
                         allocs |-> cb.allocs]
    /\ outq' = NoQueues
    /\ phase' = "running"
    /\ UNCHANGED <<evq, quiet, fc, sat, acc, call, inputs, outputs, v, voutq, budget, hist>>

\* one iteration of the loop of mixer_dispatch_output
ConcDispatchStep ==
    /\ conc.tpc = "dispatch" /\ conc.idx < NPins
    /\ IF dispatch_target(s, outputs, conc.idx, last.active_input)
       THEN /\ outq' = [outq EXCEPT ![conc.idx] = conc.q]
            /\ conc' = [conc EXCEPT !.idx = IF s.single_output THEN NPins ELSE @ + 1]
       ELSE /\ outq' = outq
            /\ conc' = [conc EXCEPT !.idx = @ + 1]
    /\ UNCHANGED <<evq, quiet, fc, sat, acc, call, inputs, outputs, inq, time, phase, s, v, voutq, last, budget, hist>>

\* one iteration of the output loop of mixer_process
ConcOutStep ==
    /\ conc.tpc = "out" /\ conc.idx < NPins
    /\ outq' = IF conc.idx \in outputs /\ s.channels[conc.idx].output_enabled
               THEN [outq EXCEPT ![conc.idx] = <<process_out(s, conc.idx)>>]
               ELSE outq
    /\ conc' = [conc EXCEPT !.idx = @ + 1]
    /\ UNCHANGED <<evq, quiet, fc, sat, acc, call, inputs, outputs, inq, time, phase, s, v, voutq, last, budget, hist>>

\* ms_filter_unlock at the end of mixer_process
ConcTickEnd ==
    /\ conc.tpc = "unlock" \/ (conc.tpc \in {"dispatch", "out"} /\ conc.idx = NPins)
    /\ conc' = [conc EXCEPT !.lock = ms_filter_unlock(@, "tick"), !.tpc = "done"]
    /\ UNCHANGED <<evq, quiet, fc, sat, acc, call, inputs, outputs, inq, time, phase, s, v, outq, voutq, last, budget, hist>>

\* a mixer_enable_output that returns without ms_filter_unlock
EnableUnlock_kept ==
    /\ conc.cpc = "unlock"
    /\ conc' = [conc EXCEPT !.cpc = "idle"]
    /\ UNCHANGED <<evq, quiet, fc, sat, acc, call, inputs, outputs, inq, time, phase, s, v, outq, voutq, last, budget, hist>>

\* mixer_enable_output without its ms_filter_lock
EnableLock_unlocked ==
    /\ conc.cpc = "idle"
    /\ budget.ctl < MaxConcCtl
    /\ \E e \in BOOLEAN :
         conc' = [conc EXCEPT !.lock = ms_filter_lock(@, "ctl"), !.cpc = "write", !.val = e]
    /\ Spend("ctl")
    /\ UNCHANGED <<evq, quiet, fc, sat, acc, call, inputs, outputs, inq, time, phase, s, v, outq, voutq, last, hist>>

\* mixer_enable_output(pin 0, e), up to and with its ms_filter_lock
EnableLock ==
    /\ conc.cpc = "idle"
    /\ lock_free(conc.lock)
    /\ budget.ctl < MaxConcCtl
    /\ \E e \in BOOLEAN :
         conc' = [conc EXCEPT !.lock = ms_filter_lock(@, "ctl"), !.cpc = "write", !.val = e]
    /\ Spend("ctl")
    /\ UNCHANGED <<evq, quiet, fc, sat, acc, call, inputs, outputs, inq, time, phase, s, v, outq, voutq, last, hist>>

\* s->channels[ctl->pin].output_enabled = ctl->param.enabled
EnableWrite ==
    /\ conc.cpc = "write"
    /\ s' = [s EXCEPT !.channels[0].output_enabled = conc.val]
    /\ conc' = [conc EXCEPT !.cpc = "single"]
    /\ UNCHANGED <<evq, quiet, fc, sat, acc, call, inputs, outputs, inq, time, phase, v, outq, voutq, last, budget, hist>>

\* s->single_output = has_single_output(f, s)
EnableSingle ==
    /\ conc.cpc = "single"
    /\ s' = mixer_enable_output(s, outputs, 0, conc.val).st
    /\ conc' = [conc EXCEPT !.cpc = "unlock"]
    /\ UNCHANGED <<evq, quiet, fc, sat, acc, call, inputs, outputs, inq, time, phase, v, outq, voutq, last, budget, hist>>

\* ms_filter_unlock at the end of mixer_enable_output
EnableUnlock ==
    /\ conc.cpc = "unlock"
    /\ conc' = [conc EXCEPT !.lock = ms_filter_unlock(@, "ctl"), !.cpc = "idle"]
    /\ UNCHANGED <<evq, quiet, fc, sat, acc, call, inputs, outputs, inq, time, phase, s, v, outq, voutq, last, budget, hist>>

\* mixer_set_conference_mode: one store, under no lock
ConcSetConferenceMode ==
    /\ conc.cpc = "idle"
    /\ budget.ctl < MaxConcCtl
    /\ \E on \in BOOLEAN :
         /\ s' = mixer_set_conference_mode(s, on).st
         /\ conc' = [conc EXCEPT !.conf_on = @ /\ on]
    /\ Spend("ctl")
    /\ UNCHANGED <<evq, quiet, fc, sat, acc, call, inputs, outputs, inq, time, phase, v, outq, voutq, last, hist>>

\* mixer_set_active(pin 0, a): one store, under no lock
ConcSetActive ==
    /\ conc.cpc = "idle"
    /\ budget.ctl < MaxConcCtl
    /\ \E a \in BOOLEAN : s' = mixer_set_active(s, 0, a).st
    /\ Spend("ctl")
    /\ UNCHANGED <<evq, quiet, fc, sat, acc, call, inputs, outputs, inq, time, phase, v, outq, voutq, last, hist, conc>>

InitConc == InitOn(ConcTopologies)

(* the configuration calls around and during a tick: mixer_set_rate and
   mixer_set_nchannels take no lock, so they run between any two steps of a tick *)
CfgCall(op, arg, r, rv) ==
    /\ budget.ctl < MaxConcCtl
    /\ s' = r.st
    /\ v' = rv.st
    /\ call' = [op |-> op, arg |-> arg, val |-> "tick" \in conc.lock, ret |-> r.ret, vret |-> rv.ret]
    /\ Spend("ctl")
    /\ UNCHANGED <<evq, quiet, fc, sat, acc, inputs, outputs, inq, time, phase, outq, voutq, last, hist, conc>>

CfgSetRate ==
    \E rate \in CfgRateArgs :
        CfgCall("set_rate", rate, mixer_set_rate(s, rate), avx_mixer_set_rate(v, rate))

CfgSetNchannels ==
    \E n \in CfgChannelArgs :
        CfgCall("set_nchannels", n, mixer_set_nchannels(s, n), mixer_set_nchannels(v, n))

\* the filter is unprepared once the ticker has let go of it
CfgUnprepare ==
    /\ conc.tpc \in {"idle", "done"}
    /\ Unprepare

NextCfg ==
    \/ Prepare
    \/ CfgUnprepare
    \/ ConcTickCall
    \/ ConcTickBegin
    \/ ConcDispatchStep
    \/ ConcOutStep
    \/ ConcTickEnd
    \/ CfgSetRate
    \/ CfgSetNchannels

SpecCfg == InitConc /\ [][NextCfg]_vars

NextConc ==
    \/ Prepare
    \/ ConcTickCall
    \/ ConcTickBegin
    \/ ConcDispatchStep
    \/ ConcOutStep
    \/ ConcTickEnd
    \/ EnableLock
    \/ EnableWrite
    \/ EnableSingle
    \/ EnableUnlock
    \/ ConcSetConferenceMode
    \/ ConcSetActive

SpecConc == InitConc /\ [][NextConc]_vars

\* the ticker thread runs on, and so does a control call that holds the lock
SpecConcFair ==
    /\ SpecConc
    /\ WF_vars(ConcTickBegin) /\ WF_vars(ConcDispatchStep)
    /\ WF_vars(ConcOutStep) /\ WF_vars(ConcTickEnd)
    /\ WF_vars(EnableWrite) /\ WF_vars(EnableSingle) /\ WF_vars(EnableUnlock)

(* ----------------------------- properties ------------------------------ *)
\* the clamp the specification asks of emitted samples
Clamp(x) == IF x > 32767 THEN 32767 ELSE IF x < -32767 THEN -32767 ELSE x
InRange(frame) == \A k \in 1 .. Len(frame) : frame[k] >= -32767 /\ frame[k] <= 32767

\* the latest operation was a tick, and it counted this many inputs active
SummationTick == last.tick /\ last.cnt >= 2
BypassTick == last.tick /\ last.cnt = 1
IdleTick == last.tick /\ last.cnt = 0

\* the outputs that are linked and enabled
EnabledOutputs == {i \in Pins : i \in outputs /\ s.channels[i].output_enabled}
\* the samples input i held at the latest tick once its queue was pulled
Pulled(i) == last.prebuf[i] \o Flatten(last.preq[i])
\* input i drained a full tick block at the latest tick, and the block it drained
DrainedBlock(i) == i \in inputs /\ s.samplespertick > 0 /\ Len(Pulled(i)) >= s.samplespertick
Block(i) == SubSeq(Pulled(i), 1, s.samplespertick)
\* the set C of the specification
Contributors == {j \in Pins : DrainedBlock(j) /\ s.channels[j].active}
RECURSIVE SumOver(_, _)
SumOver(S, k) ==
    IF S = {} THEN 0
    ELSE LET j == CHOOSE x \in S : TRUE IN Block(j)[k] + SumOver(S \ {j}, k)
\* the frame the specification gives output i on a summation tick
ExpectedMix(i) ==
    [k \in 1 .. s.samplespertick |->
        Clamp(SumOver(Contributors, k)
              - (IF s.conf_mode /\ i \in Contributors THEN Block(i)[k] ELSE 0))]
\* the frames of the latest tick, as one stream of samples
Stream(q) == Flatten(q)

\* the example of the specification: A, B and C contribute, conference mode is on,
\* output 0 is A's own and output 3 belongs to a listener that contributes nothing
ExampleCase ==
    /\ SummationTick /\ s.conf_mode /\ Contributors = {0, 1, 2}
    /\ SubSeq(Block(0), 1, 2) = <<100, -50>>
    /\ SubSeq(Block(1), 1, 2) = <<200, 30>>
    /\ SubSeq(Block(2), 1, 2) = <<-10, 5>>
    /\ {0, 3} \subseteq EnabledOutputs

\* C1 (as stated): on a summation tick every linked, enabled output i receives the frame
\* saturate(sum over C - x_i) when conference mode is on and i is in C, saturate(sum over C)
\* otherwise; in the example the output of channel A is [190, 135], the listener's [290, -15]
C1_Original ==
    /\ SummationTick => \A i \in EnabledOutputs : outq[i] = <<ExpectedMix(i)>>
    /\ ExampleCase => /\ SubSeq(outq[0][1], 1, 2) = <<190, 135>>
                      /\ SubSeq(outq[3][1], 1, 2) = <<290, -15>>

\* C1 (amended): on a summation tick every linked, enabled output i of the scalar mixer
\* receives the frame ExpectedMix(i), and so does output i of the vectorized mixer when
\* input i is linked; in the example the output of channel A is [190, 35] (-50+30+5+50),
\* the listener's [290, -15]
C1_SummationMix ==
    /\ SummationTick =>
          \A i \in EnabledOutputs :
              /\ outq[i] = <<ExpectedMix(i)>>
              /\ i \in inputs => voutq[i] = <<ExpectedMix(i)>>
    /\ ExampleCase => /\ SubSeq(outq[0][1], 1, 2) = <<190, 35>>
                      /\ SubSeq(outq[3][1], 1, 2) = <<290, -15>>

C1_Witness ==
    /\ ExampleCase
    /\ SubSeq(outq[0][1], 1, 2) = <<190, 35>>
    /\ SubSeq(voutq[0][1], 1, 2) = <<190, 35>>
    /\ SubSeq(outq[3][1], 1, 2) = <<290, -15>>

\* C2 (as stated): every sample of every frame placed on any output, on any tick and in
\* any mode, lies in [-32767, 32767]
C2_Original ==
    \A i \in Pins : \A f \in 1 .. Len(outq[i]) : InRange(outq[i][f])

\* C2 (amended): every sample of every frame a summation tick places on an output lies in
\* [-32767, 32767]; a bypass tick places the active input's frames on the outputs as they
\* are, so that a forwarded frame holds -32768 wherever the input frame does
C2_SummationInRange ==
    /\ SummationTick => \A i \in Pins : \A f \in 1 .. Len(outq[i]) : InRange(outq[i][f])
    /\ BypassTick => \A i \in Pins : outq[i] \in {<<>>, last.preq[last.active_input]}

\* a summation tick clamped a sum below -32767 to -32767
C2_Witness ==
    /\ SummationTick
    /\ \E i \in EnabledOutputs : \E k \in 1 .. s.samplespertick :
          /\ SumOver(Contributors, k) < -32768
          /\ outq[i][1][k] = -32767

\* C3 (as stated): for any number of active channels, on every tick each linked, enabled,
\* non-self-excluded output receives exactly one frame, of length samples-per-tick
C3_Original ==
    last.tick =>
        \A i \in EnabledOutputs :
            (BypassTick /\ s.conf_mode /\ i = last.active_input)
            \/ (Len(outq[i]) = 1 /\ Len(outq[i][1]) = s.samplespertick)

\* C3 (amended): on a summation tick (two or more inputs counted active) each linked,
\* enabled output receives exactly one frame, of length samples-per-tick; a tick that
\* counts no input active emits no frame; a bypass tick gives each linked, enabled,
\* non-self-excluded output the frames queued on the active input, however many and
\* however long they are
C3_OneFramePerSummationTick ==
    /\ SummationTick =>
          \A i \in EnabledOutputs : Len(outq[i]) = 1 /\ Len(outq[i][1]) = s.samplespertick
    /\ IdleTick => \A i \in Pins : outq[i] = <<>>
    /\ BypassTick =>
          \A i \in EnabledOutputs :
              (s.conf_mode /\ i = last.active_input)
              \/ ( /\ Len(outq[i]) = Len(last.preq[last.active_input])
                   /\ \A f \in 1 .. Len(outq[i]) :
                         Len(outq[i][f]) = Len(last.preq[last.active_input][f]) )

\* a summation tick on which an input underran and both outputs received their frame
C3_Witness ==
    /\ SummationTick
    /\ EnabledOutputs = {0, 3}
    /\ \E j \in inputs : ~DrainedBlock(j)
    /\ \A i \in EnabledOutputs : Len(outq[i]) = 1 /\ Len(outq[i][1]) = s.samplespertick

\* C4: on a tick where exactly one input is counted active, every linked and enabled
\* output receives the frames queued on that input, same content and same order, except
\* the active input's own output when conference mode is on; no other output receives a
\* frame, and the active input's queue is empty when the tick ends; the vectorized mixer
\* does the same
C4_BypassForwardsVerbatim ==
    BypassTick =>
        /\ \A i \in Pins :
              LET expected == IF i \in EnabledOutputs
                                 /\ ~(s.conf_mode /\ i = last.active_input)
                              THEN last.preq[last.active_input] ELSE <<>>
              IN  outq[i] = expected /\ voutq[i] = expected
        /\ inq[last.active_input] = <<>>

\* a bypass tick in conference mode: two frames queued on input 0 reach output 3 and
\* not output 0
C4_Witness ==
    /\ BypassTick /\ s.conf_mode /\ last.active_input = 0
    /\ Len(last.preq[0]) = 2
    /\ outq[3] = last.preq[0] /\ outq[0] = <<>>
    /\ inq[0] = <<>>

\* the contributor of a tick that has a single one
SoleContributor == IF BypassTick THEN last.active_input ELSE CHOOSE j \in Contributors : TRUE
SingleContributorTick ==
    s.conf_mode /\ (BypassTick \/ (SummationTick /\ Cardinality(Contributors) = 1))
AllZero(frame) == \A k \in 1 .. Len(frame) : frame[k] = 0

\* C5 (as stated): with conference mode on and a single active contributor, on every tick
\* the contributor's own output is a frame of all-zero samples and every other enabled
\* output's samples equal the contributor's raw samples
C5_Original ==
    SingleContributorTick =>
        \A i \in EnabledOutputs :
            IF i = SoleContributor
            THEN outq[i] # <<>> /\ \A f \in 1 .. Len(outq[i]) : AllZero(outq[i][f])
            ELSE Stream(outq[i]) =
                    (IF BypassTick THEN Stream(last.preq[SoleContributor])
                     ELSE Block(SoleContributor))

\* C5 (amended): with conference mode on, a bypass tick gives the contributor's own output
\* no frame and every other linked, enabled output the contributor's frames as they are;
\* a summation tick with a single contributor gives the contributor's own output one
\* all-zero frame and every other linked, enabled output the contributor's block with
\* each sample clamped to [-32767, 32767]
C5_SingleContributor ==
    SingleContributorTick =>
        \A i \in EnabledOutputs :
            IF BypassTick
            THEN outq[i] = (IF i = SoleContributor THEN <<>> ELSE last.preq[SoleContributor])
            ELSE outq[i] = (IF i = SoleContributor
                            THEN <<Zeros(s.samplespertick)>>
                            ELSE <<[k \in 1 .. s.samplespertick |->
                                       Clamp(Block(SoleContributor)[k])]>>)

\* a summation tick in conference mode with input 0 the single contributor: output 0
\* is silent and output 3 carries input 0's block, clamped
C5_Witness ==
    /\ s.conf_mode /\ SummationTick /\ Contributors = {0}
    /\ outq[0] = <<Zeros(s.samplespertick)>>
    /\ outq[3] # <<Block(0)>>
    /\ outq[3] = <<[k \in 1 .. s.samplespertick |-> Clamp(Block(0)[k])]>>

\* C6: when input 0 is the only input ever fed, every tick has found frames queued on it,
\* and a whole flow-control window has gone by since the first tick, the samples every linked, enabled output has received are the
\* samples fed to input 0, in order and unaltered, whichever path handled each tick; what
\* the elastic buffer still holds is allowed to be outstanding
C6_BypassSummationEquivalence ==
    (last.tick /\ hist.every /\ hist.first # NO_TIME
        /\ time - hist.first >= FLOW_CONTROL_WINDOW) =>
        \A i \in EnabledOutputs : hist.got[i] \o s.channels[0].bufferizer = hist.fed

\* C7: the scalar and the vectorized mixer, started alike and driven alike, emit the same
\* frames with the same samples on every output at every tick
C7_BitIdentical ==
    last.tick => \A i \in Pins : voutq[i] = outq[i]

\* C8: an output whose output_enabled flag is false when a tick starts receives no frame
\* during that tick, on a bypass tick as on a summation tick; so an output disabled by
\* mixer_enable_output receives nothing until it is enabled again
C8_DisabledOutputSilent ==
    last.tick => \A i \in Pins : ~s.channels[i].output_enabled => outq[i] = <<>>

\* output 0 has been disabled, and a tick that put frames on output 3 put none on it
C8_Witness ==
    /\ last.tick /\ last.cnt >= 1
    /\ 0 \in outputs /\ ~s.channels[0].output_enabled
    /\ outq[3] # <<>> /\ outq[0] = <<>>

\* C9: the frames of an input whose active flag is false appear in no output on a bypass
\* tick, and contribute to no output on a summation tick
C9_MutedNeverHeard ==
    \A j \in inputs :
        ~s.channels[j].active =>
            /\ BypassTick =>
                  \A i \in Pins : \A f \in 1 .. Len(outq[i]) :
                      \A g \in 1 .. Len(last.preq[j]) : outq[i][f] # last.preq[j][g]
            /\ SummationTick => \A i \in EnabledOutputs : outq[i] = <<ExpectedMix(i)>>

\* input j held less than a tick block once its queue was pulled at the latest tick
Underrun(j) == j \in inputs /\ Len(Pulled(j)) < s.samplespertick
FullFrame(q) == Len(q) = 1 /\ Len(q[1]) = s.samplespertick

\* C10: on a summation tick, a linked input that holds less than a tick block once its
\* queue was pulled adds nothing to the sum and keeps all it holds; every linked, enabled
\* output still receives one frame of full length; the vectorized mixer does the same
C10_UnderrunIsSilence ==
    (SummationTick /\ \E j \in Pins : Underrun(j)) =>
        /\ \A j \in Pins : Underrun(j) =>
              /\ s.channels[j].bufferizer = Pulled(j)
              /\ v.channels[j].bufferizer = Pulled(j)
        /\ \A k \in 1 .. s.samplespertick :
              /\ s.sum[k] = SumOver({j \in Contributors : ~Underrun(j)}, k)
              /\ v.sum[k] = s.sum[k]
        /\ \A i \in EnabledOutputs : FullFrame(outq[i]) /\ FullFrame(voutq[i])

\* a summation tick on which input 0 underran with samples in hand, and another input
\* contributed
C10_Witness ==
    /\ SummationTick
    /\ Underrun(0) /\ Pulled(0) # <<>> /\ s.channels[0].bufferizer = Pulled(0)
    /\ Contributors # {}
    /\ FullFrame(outq[3]) /\ outq[3][1] # Zeros(s.samplespertick)

\* the flow-control state of a channel
FlowState(chan) == <<chan.min_fullness, chan.last_flow_control>>

\* C11: a tick on which no input is counted active puts no frame on any output and
\* leaves the bypass flag, every channel's bufferizer and every channel's flow-control
\* state as they were; the vectorized mixer does the same
C11_IdleTickIsNoOp ==
    [][ (last'.tick /\ last'.cnt = 0) =>
          /\ \A i \in Pins : outq'[i] = <<>> /\ voutq'[i] = <<>>
          /\ s'.bypass_mode = s.bypass_mode /\ v'.bypass_mode = v.bypass_mode
          /\ \A i \in Pins :
                /\ s'.channels[i].bufferizer = s.channels[i].bufferizer
                /\ v'.channels[i].bufferizer = v.channels[i].bufferizer
                /\ FlowState(s'.channels[i]) = FlowState(s.channels[i])
                /\ FlowState(v'.channels[i]) = FlowState(v.channels[i]) ]_vars

\* an idle tick that follows a bypass tick: the bypass flag is still set
C11_Witness ==
    /\ IdleTick /\ budget.ticks = 2
    /\ s.bypass_mode

\* the bytes input i held at the latest tick once its tick block, if any, was drained
AfterRead(i) ==
    2 * (IF DrainedBlock(i) THEN Len(Pulled(i)) - s.samplespertick ELSE Len(Pulled(i)))
\* the bytes the bufferizer of a channel holds
Held(chan) == 2 * Len(chan.bufferizer)
\* the threshold of the flow control, in bytes
Threshold == 4 * s.samplespertick
\* the minimum fullness the flow control tracks for channel i at a summation tick that
\* finds the channel as chan
TrackedMin(chan, i) ==
    IF chan.min_fullness = -1 \/ AfterRead(i)' < chan.min_fullness
    THEN AfterRead(i)' ELSE chan.min_fullness
\* the window of channel chan has elapsed when the next tick runs
WindowElapsed(chan) ==
    chan.last_flow_control # NO_TIME /\ time' - chan.last_flow_control >= FLOW_CONTROL_WINDOW

\* C12: at a summation tick that ends a window of 5000 time units over which the tracked
\* minimum fullness of a linked input stayed at or above the threshold, the flow control
\* removes (minimum - threshold/2) bytes, which leaves at least threshold/2; no other step
\* removes a byte from a bufferizer beyond the tick block a summation tick drains; the
\* vectorized mixer does the same
C12_FlowControl ==
    [][ \A i \in Pins :
          /\ s'.channels[i].bufferizer = v'.channels[i].bufferizer
          /\ IF SummationTick' /\ i \in inputs
             THEN IF WindowElapsed(s.channels[i]) /\ TrackedMin(s.channels[i], i) >= Threshold
                  THEN /\ Held(s'.channels[i]) =
                            AfterRead(i)' - (TrackedMin(s.channels[i], i) - Threshold \div 2)
                       /\ Held(s'.channels[i]) >= Threshold \div 2
                       /\ Held(s'.channels[i]) < AfterRead(i)'
                  ELSE Held(s'.channels[i]) = AfterRead(i)'
             ELSE s'.channels[i].bufferizer = s.channels[i].bufferizer ]_vars

\* a summation tick at which the flow control trimmed input 0 down to threshold/2
C12_Witness ==
    /\ SummationTick
    /\ Held(s.channels[0]) < AfterRead(0)
    /\ Held(s.channels[0]) = Threshold \div 2

(* ------------------- the tick and the control thread -------------------- *)
\* a tick is in flight: mixer_process holds the filter lock
TickInFlight == "tick" \in conc.lock
\* the tick ends with this step
TickEnds == conc.tpc # "done" /\ conc'.tpc = "done"

\* C13: while a tick is in flight no output's output_enabled flag and not the cached
\* single_output flag changes, and the single_output flag a tick works with is the
\* one computed from the output_enabled flags it works with
C13_EnableOutputSerialized ==
    [][ /\ TickInFlight =>
             s.single_output = (Cardinality(EnabledOutputs) = 1)
        /\ (TickInFlight /\ TickInFlight') =>
             /\ \A i \in Pins :
                   s'.channels[i].output_enabled = s.channels[i].output_enabled
             /\ s'.single_output = s.single_output ]_vars
\* a tick is in flight after output 0 has been disabled, which left one output
\* enabled, and the control thread asks for the lock again
C13_Witness ==
    /\ TickInFlight /\ conc.idx > 0
    /\ ~s.channels[0].output_enabled /\ s.single_output
    /\ budget.ctl = 1 /\ conc.cpc = "idle"

\* the frame the specification gives output i on a summation tick under the
\* conference-mode value c
MixUnder(c, i) ==
    [k \in 1 .. s.samplespertick |->
        Clamp(SumOver(Contributors, k)
              - (IF c /\ i \in Contributors THEN Block(i)[k] ELSE 0))]
\* what the specification gives output i on the latest tick under the value c
TickUnder(c, i) ==
    IF i \notin EnabledOutputs THEN <<>>
    ELSE IF last.cnt >= 2 THEN <<MixUnder(c, i)>>
    ELSE IF last.cnt = 1 /\ ~(c /\ i = last.active_input)
         THEN last.preq[last.active_input]
    ELSE <<>>

\* the outputs of the tick that ends with this step received what one and the same
\* conference-mode value gives every one of them
OneValuePerTick ==
    TickEnds => \E c \in BOOLEAN : \A i \in Pins : outq'[i] = TickUnder(c, i)'

\* C14: the conference-mode value cannot change while a tick is in flight, and what
\* the outputs receive in one tick is what one and the same conference-mode value
\* gives every one of them
C14_ConferenceModeSerialized ==
    [][ /\ OneValuePerTick
        /\ (TickInFlight /\ TickInFlight') => s'.conf_mode = s.conf_mode ]_vars

(* -------------------------- the control surface ------------------------- *)
\* the latest step was the control call op
Called(op) == call'.op = op /\ budget'.ctl = budget.ctl + 1
\* the rates each strategy is to accept
ScalarRate(r) == r % 8000 = 0
VectorRate(r) == r \in {8000, 16000}
\* the pins a control call may name
ValidPin(pin) == 0 <= pin /\ pin < 128

\* C15: set_rate(r) succeeds exactly when r is a multiple of 8000 (scalar), or 8000
\* or 16000 (vectorized); a rejected call returns -1 and leaves the rate as it was,
\* an accepted call returns 0 and get_rate then returns r
C15_SetRateValidated ==
    [][ Called("set_rate") =>
          /\ IF ScalarRate(call'.arg)
             THEN /\ call'.ret = 0
                  /\ mixer_get_rate(s') = [ret |-> 0, data |-> call'.arg]
             ELSE call'.ret = -1 /\ s'.rate = s.rate /\ s' = s
          /\ IF VectorRate(call'.arg)
             THEN /\ call'.vret = 0
                  /\ mixer_get_rate(v') = [ret |-> 0, data |-> call'.arg]
             ELSE call'.vret = -1 /\ v'.rate = v.rate /\ v' = v ]_vars
\* set_rate(11025) has been rejected after set_rate(8000) had been accepted, and
\* the rate is still 8000
C15_Witness ==
    /\ call.op = "set_rate" /\ call.arg = 11025
    /\ call.ret = -1 /\ call.vret = -1
    /\ s.rate = 8000 /\ v.rate = 8000

\* C16: set_active and enable_output with a pin outside [0, 128) return -1 and
\* change nothing; with a pin inside they return 0 and change only the active flag
\* of that channel, respectively its output_enabled flag and single_output
C16_PinValidated ==
    [][ (Called("set_active") \/ Called("enable_output")) =>
          /\ call'.ret = call'.vret
          /\ IF ~ValidPin(call'.arg)
             THEN call'.ret = -1 /\ s' = s /\ v' = v
             ELSE /\ call'.ret = 0
                  /\ IF call'.op = "set_active"
                     THEN /\ s' = [s EXCEPT !.channels[call'.arg].active = call'.val]
                          /\ v' = [v EXCEPT !.channels[call'.arg].active = call'.val]
                     ELSE \E b \in BOOLEAN :
                          /\ s' = [s EXCEPT !.channels[call'.arg].output_enabled = call'.val,
                                            !.single_output = b]
                          /\ v' = [v EXCEPT !.channels[call'.arg].output_enabled = call'.val,
                                            !.single_output = b] ]_vars
\* enable_output(128, ..) has been rejected after output 0 had been disabled, and
\* the filter still has a single output
C16_Witness ==
    /\ call.op = "enable_output" /\ call.arg = 128 /\ call.ret = -1
    /\ ~s.channels[0].output_enabled /\ s.single_output

\* C17: set_input_gain returns -1 for every argument and in every phase of the
\* filter, and changes nothing
C17_SetInputGainNotImplemented ==
    [][ Called("set_input_gain") =>
          /\ call'.ret = -1 /\ call'.vret = -1
          /\ s' = s /\ v' = v
          /\ UNCHANGED <<inputs, outputs, inq, time, phase, outq, voutq>> ]_vars
\* set_input_gain has failed on a running filter whose rate had been changed
C17_Witness ==
    /\ call.op = "set_input_gain" /\ call.ret = -1
    /\ phase = "running" /\ s.rate # DEFAULT_RATE

(* ------------------------- the life of the buffers ---------------------- *)
\* the accumulator and every contribution buffer of a strategy hold n samples
Allocated(st, n) ==
    Len(st.sum) = n /\ \A i \in Pins : Len(st.channels[i].input) = n
\* no buffer of a strategy is allocated
Released(st) ==
    st.sum = <<>> /\ \A i \in Pins : st.channels[i].input = <<>>
\* the steps of the life of the filter
Prepares == phase # "prepared" /\ phase' = "prepared"
Unprepares == phase # "unprepared" /\ phase' = "unprepared"
Ticks == budget'.ticks = budget.ticks + 1

InInt32(x) == -2147483647 - 1 <= x /\ x <= 2147483647
\* x is what n samples of 16 bits can sum to
SumOfSamples(x, n) == n * (-32768) <= x /\ x <= n * 32767

\* C19: with up to 128 contributing channels and samples down to -32768, every lane
\* of the accumulator is the sum of that many 16-bit samples, and it and the lane
\* minus the own contribution of an output are values of a signed 32-bit integer
C19_AccumulatorInRange ==
    /\ acc.n <= 128
    /\ \A k \in 1 .. Len(acc.sum) : SumOfSamples(acc.sum[k], acc.n) /\ InInt32(acc.sum[k])
    /\ \A k \in 1 .. Len(acc.vsum) : SumOfSamples(acc.vsum[k], acc.n) /\ InInt32(acc.vsum[k])
    /\ \A k \in 1 .. Len(acc.sum) : InInt32(acc.sum[k] - acc.own)
    /\ \A k \in 1 .. Len(acc.vsum) : InInt32(acc.vsum[k] - acc.own)
    /\ InInt32(128 * (-32768) - 32767) /\ InInt32(128 * 32767 + 32768)
\* 128 channels have contributed -32768 each, and an output has been computed
C19_Witness ==
    /\ acc.n = 128 /\ acc.done
    /\ acc.sum = <<128 * (-32768)>> /\ acc.vsum[1] = 128 * (-32768)
    /\ acc.out = -32767 /\ acc.vout = -32767

(* --------------------------- every tick ends ---------------------------- *)
\* mixer_process has been called and has not returned
TickCalled == conc.tpc \in {"lock", "dispatch", "out", "unlock"}

\* C20: a call of mixer_process returns after finitely many steps, when every control
\* call that takes the lock releases it after finitely many steps
C20_TickCompletes == TickCalled ~> (conc.tpc = "done")
\* a tick that found the lock held by mixer_enable_output has returned
C20_Witness == conc.tpc = "done" /\ conc.waited /\ budget.ctl > 0

(* --------------------------- allocation in a tick ----------------------- *)
\* C21: a tick allocates nothing, on bypass ticks as well as on summation ticks
C21_NoAllocationInTick == last.tick => last.allocs = 0

(* ------------------------------ saturation ------------------------------ *)
\* C22: saturating twice gives what saturating once gives, and a value within
\* -32767 .. 32767 is left as it is, in both strategies
C22_SaturationIdempotent ==
    /\ sat.step >= 2 =>
         /\ (-32767 <= sat.x /\ sat.x <= 32767) => (sat.once = sat.x /\ sat.vonce = sat.x)
         /\ sat.once = sat.vonce
    /\ sat.step = 3 => (sat.twice = sat.once /\ sat.vtwice = sat.vonce)
\* the largest 32-bit value has been saturated twice
C22_Witness ==
    /\ sat.step = 3 /\ sat.x = 2147483647
    /\ sat.once = 32767 /\ sat.twice = 32767 /\ sat.vtwice = 32767

(* --------------------------- bypass detection --------------------------- *)
\* the connected inputs the coming tick is to count as active: those with a frame
\* queued, and those whose last activity is less than 1000 time units back
DueActive(st) ==
    {i \in inputs :
        \/ last'.preq[i] # <<>>
        \/ /\ st.channels[i].last_activity # -1
           /\ time' - st.channels[i].last_activity < 1000}
\* the greatest element of a set of pins, -1 for the empty set
Greatest(S) == IF S = {} THEN -1 ELSE CHOOSE i \in S : \A j \in S : j <= i
\* the last activity of input i after the coming tick: the time of the tick when
\* it finds a frame queued or is the first one of the input since prepare
DueActivity(st, i) ==
    IF i \in inputs /\ (last'.preq[i] # <<>> \/ st.channels[i].last_activity = -1)
    THEN time'
    ELSE st.channels[i].last_activity

\* C23 as stated: the last activity of an input changes only on ticks that find a
\* frame queued on it
C23_Original ==
    [][ Ticks =>
          \A i \in inputs :
              s'.channels[i].last_activity # s.channels[i].last_activity
                  => last'.preq[i] # <<>> ]_vars
\* C23: a tick counts a connected input as active exactly when a frame is queued on
\* it or its last activity is less than 1000 time units back, where the last
\* activity is the time of the latest tick that found a frame queued or, before any
\* such tick, of the first tick after prepare, which does not count the input
C23_ActivityCounted ==
    [][ Ticks =>
          /\ last'.cnt = Cardinality(DueActive(s))
          /\ last'.active_input = Greatest(DueActive(s))
          /\ DueActive(v) = DueActive(s)
          /\ \A i \in Pins :
                /\ s'.channels[i].last_activity = DueActivity(s, i)
                /\ v'.channels[i].last_activity = DueActivity(v, i) ]_vars
\* a tick has counted three inputs active of which two had no frame queued
C23_Witness ==
    /\ last.tick /\ last.cnt = 3
    /\ last.preq[1] = <<>> /\ last.preq[2] = <<>>
    /\ s.channels[1].last_activity # time

(* ----------------------------- the bypass flag -------------------------- *)
\* the messages alternate and the first is the one of entering bypass mode
Alternates(log) ==
    \A k \in 1 .. Len(log) : log[k] = (IF k % 2 = 1 THEN "entering" ELSE "leaving")
\* the messages logged since the latest prepare
LogSincePrepare == SubSeq(hist.log, hist.mark + 1, Len(hist.log))
\* the flag after a tick that counted cnt inputs active
FlagAfter(cnt, before) == IF cnt = 1 THEN TRUE ELSE IF cnt >= 2 THEN FALSE ELSE before
\* the flag is false after prepare and follows the count of active inputs at every
\* tick, and a tick logs a message exactly when it changes the flag
FlagAndLog ==
    /\ Prepares => ~s'.bypass_mode /\ ~v'.bypass_mode
    /\ Ticks =>
         /\ s'.bypass_mode = FlagAfter(last'.cnt, s.bypass_mode)
         /\ v'.bypass_mode = FlagAfter(last'.cnt, v.bypass_mode)
         /\ hist'.log = hist.log \o
                          (IF s'.bypass_mode = s.bypass_mode THEN <<>>
                           ELSE IF s'.bypass_mode THEN <<"entering">> ELSE <<"leaving">>)

\* C24 as stated: over any run the messages alternate, starting with entering
C24_Original == [][FlagAndLog /\ Alternates(hist.log)']_vars
\* C24: the bypass flag is false after prepare, true after a tick with one active
\* input, false after a tick with two or more, and unchanged by a tick with none;
\* a tick logs a transition exactly when it changes the flag, so the messages logged
\* since the latest prepare alternate, starting with entering
C24_BypassFlag == [][FlagAndLog /\ Alternates(LogSincePrepare)']_vars
\* a filter has entered bypass mode, been prepared again, and entered it again
C24_Witness ==
    /\ Len(hist.log) >= 2 /\ hist.mark > 0
    /\ LogSincePrepare = <<"entering">> /\ s.bypass_mode

(* ------------------- set_active in the middle of a tick ----------------- *)
\* the frame of an output whose channel has, or has not, been added to the sum
WithoutOwn(st, i) ==
    [k \in 1 .. st.samplespertick |->
        Clamp(st.sum[k] - (IF st.channels[i].had_input THEN st.channels[i].input[k] ELSE 0))]

\* C25: with conference mode on throughout a summation tick, every enabled output
\* receives the sum without the contribution of its own channel when that was added
\* in this tick, and the plain sum when it was not, whenever set_active is called
C25_SelfExclusionUnderSetActive ==
    [][ (TickEnds /\ last'.cnt >= 2 /\ conc'.conf_on) =>
          \A i \in Pins :
              (i \in outputs /\ s'.channels[i].output_enabled)
                  => outq'[i] = <<WithoutOwn(s', i)>> ]_vars

(* ------------------- the drain and the flow control of a tick ----------- *)
\* what the bufferizer of input i holds once the latest tick pulled the queue of the
\* input into it and read one tick block, when it held one
Drained(i) ==
    IF DrainedBlock(i)
    THEN SubSeq(Pulled(i), s.samplespertick + 1, Len(Pulled(i)))
    ELSE Pulled(i)
\* the bufferizer and the flow-control state of a channel
FlowPart(chan) == <<chan.bufferizer, chan.min_fullness, chan.last_flow_control>>
\* channel chan, drained at the tick that runs next, after one flow-control invocation
DrainedThenControlled(chan, i) ==
    FlowPart(channel_flow_control([chan EXCEPT !.bufferizer = Drained(i)'], Threshold, time'))

\* C26 as stated: on every tick, bypass and zero-active ticks included, each linked
\* input is drained of one tick block and its flow control then runs once
C26_Original ==
    [][ Ticks => \A i \in inputs :
          /\ FlowPart(s'.channels[i]) = DrainedThenControlled(s.channels[i], i)
          /\ FlowPart(v'.channels[i]) = DrainedThenControlled(v.channels[i], i) ]_vars

\* C26: on every summation tick each linked input has its queue pulled into its
\* bufferizer, is drained of exactly one tick block when it holds one, and has its flow
\* control invoked exactly once on the drained bufferizer; a bypass tick and a tick with
\* no active input return before the input loop: they drain no bufferizer and invoke
\* no flow control; the vectorized mixer does the same
C26_DrainThenFlowControl ==
    [][ Ticks => \A i \in inputs :
          IF last'.cnt >= 2
          THEN /\ inq'[i] = <<>>
               /\ FlowPart(s'.channels[i]) = DrainedThenControlled(s.channels[i], i)
               /\ FlowPart(v'.channels[i]) = DrainedThenControlled(v.channels[i], i)
          ELSE /\ FlowPart(s'.channels[i]) = FlowPart(s.channels[i])
               /\ FlowPart(v'.channels[i]) = FlowPart(v.channels[i]) ]_vars

\* the second summation tick of a window: input 0 was drained of a block and the flow
\* control took what was left as the minimum fullness
C26_Witness ==
    /\ SummationTick /\ budget.ticks = 2
    /\ DrainedBlock(0)
    /\ s.channels[0].min_fullness = AfterRead(0)
    /\ s.channels[0].min_fullness < 2 * Len(Pulled(0))

(* ------------------- the flow control of one channel -------------------- *)
\* the least member of a set of numbers
Least(S) == CHOOSE x \in S : \A y \in S : x <= y
\* the bytes the latest invocation removed from the bufferizer
Trimmed == Held(fc.pre) - Held(fc.chan)
\* the latest step was an invocation that was not the first one after prepare
Later == fc.called /\ ~fc.first
\* the window of 5000 time units had elapsed at the latest invocation
Elapsed == fc.t - fc.boundary >= FLOW_CONTROL_WINDOW

\* C27: at an invocation with 5000 or more time units since the window boundary, with
\* m the least post-drain fullness over the invocations since the boundary, the current
\* one included: m - threshold/2 bytes are trimmed off the front when m >= threshold and
\* none otherwise, and in both cases the window starts anew at the current time with the
\* tracked minimum cleared; with less than 5000 elapsed only the tracked minimum changes,
\* to m
C27_WindowTrim ==
    Later =>
        IF Elapsed
        THEN /\ Trimmed = IF Least(fc.obs) >= FlowThreshold
                          THEN Least(fc.obs) - FlowThreshold \div 2 ELSE 0
             /\ fc.chan = [fc.pre EXCEPT
                              !.bufferizer = Drop(fc.pre.bufferizer, Trimmed \div 2),
                              !.last_flow_control = fc.t,
                              !.min_fullness = -1]
        ELSE fc.chan = [fc.pre EXCEPT !.min_fullness = Least(fc.obs)]

\* a window ends on a bufferizer fuller than the least fullness of the window, which
\* was at the threshold: the trim goes by the minimum
C27_Witness ==
    /\ Later /\ Elapsed
    /\ Least(fc.obs) = FlowThreshold
    /\ Held(fc.pre) > Least(fc.obs)
    /\ Trimmed = FlowThreshold \div 2

\* C28: the first invocation after prepare sets the window start to the current time
\* and clears the tracked minimum; it trims nothing and changes nothing else, and the
\* fullness it finds is not counted into the minimum
C28_FirstInvocationSeeds ==
    (fc.called /\ fc.first) =>
        /\ fc.chan = [fc.pre EXCEPT !.last_flow_control = fc.t, !.min_fullness = -1]
        /\ fc.pre.last_flow_control = NO_TIME
        /\ Trimmed = 0

\* the first invocation after a second prepare, on a bufferizer above the threshold and
\* with a minimum left over from before
C28_Witness ==
    /\ fc.called /\ fc.first
    /\ fc.pre.min_fullness > 0
    /\ Held(fc.pre) > FlowThreshold

\* C29: an invocation removes no more bytes than the bufferizer holds, and after an
\* invocation that removed bytes the bufferizer holds at least threshold/2 bytes, the
\* bytes of one tick block
C29_TrimBounded ==
    fc.called =>
        /\ Trimmed >= 0 /\ Trimmed <= Held(fc.pre)
        /\ Trimmed > 0 => Held(fc.chan) >= FlowThreshold \div 2
        /\ FlowThreshold \div 2 = 2 * FlowSamples

\* a trim that leaves exactly one tick block
C29_Witness ==
    /\ fc.called /\ Trimmed > 0
    /\ Held(fc.chan) = 2 * FlowSamples

(* ------------------- the generic mix of a summation tick ---------------- *)
\* the saturated accumulator of a strategy after the input loop
GenericMix(st) == [k \in 1 .. s.samplespertick |-> Clamp(st.sum[k])]
\* output i needs no self-exclusion at the latest tick: conference mode is off, or
\* channel i added nothing to the accumulator
Generic(i) == ~(s.conf_mode /\ i \in Contributors)

\* the scalar strategy's part of C30
ScalarGenericShared ==
    SummationTick =>
        \A i \in EnabledOutputs : Generic(i) => outq[i] = <<GenericMix(s)>>

\* C30: on a summation tick every linked, enabled output that needs no self-exclusion
\* receives one frame whose samples are the saturated accumulator as it stands after the
\* input loop, whatever the index of the output; in the scalar and in the vectorized mixer
C30_GenericMixShared ==
    /\ ScalarGenericShared
    /\ SummationTick =>
          \A i \in EnabledOutputs : Generic(i) => voutq[i] = <<GenericMix(v)>>

(* ------------------- the cached single_output flag ---------------------- *)
\* exactly one output of a strategy is linked and enabled
OneOutput(st) == Cardinality({i \in Pins : i \in outputs /\ st.channels[i].output_enabled}) = 1

\* C31: from prepare on, whatever calls of mixer_enable_output were made, the cached
\* single_output flag a tick starts with is true exactly when exactly one output is
\* linked and enabled; in the scalar and in the vectorized mixer
C31_SingleOutputCached ==
    phase \in {"prepared", "running"} =>
        /\ s.single_output = OneOutput(s)
        /\ v.single_output = OneOutput(v)

\* output 0 has been disabled, which leaves output 3 alone, and a tick has run since
C31_Witness ==
    /\ last.tick /\ last.cnt >= 1
    /\ s.single_output /\ ~s.channels[0].output_enabled
    /\ outq[3] # <<>>

(* ------------------- the configuration calls ---------------------------- *)
\* the block size a strategy works with
BlockSize(st) ==
    <<st.sum = <<>>, Len(st.sum), [i \in Pins |-> Len(st.channels[i].input)], st.skip_threshold>>
\* a MixerState but for its rate and channel count
ButRate(st) == [st EXCEPT !.rate = 0, !.nchannels = 0]
\* the filter is prepared
Prepared == phase \in {"prepared", "running"}

\* C32: a call of mixer_set_rate or mixer_set_nchannels, also one made while a tick is
\* in flight, changes nothing of the MixerState but the rate and the channel count: not
\* the samples per tick, the accumulator, the contribution buffers, the threshold, the
\* channel table or a flag of a channel; and from prepare to unprepare no step changes
\* the samples per tick, the length of the accumulator and of the contribution buffers,
\* and the threshold
C32_SettersKeepBlockSize ==
    [][ /\ budget'.ctl # budget.ctl =>
              /\ ButRate(s') = ButRate(s) /\ ButRate(v') = ButRate(v)
              /\ DOMAIN s'.channels = DOMAIN s.channels
        /\ (Prepared /\ Prepared') =>
              /\ s'.samplespertick = s.samplespertick
              /\ BlockSize(s') = BlockSize(s) ]_vars

\* a summation tick during which the channel count was set has put a frame of the block
\* size of prepare on output 0, and that is not the size the new count gives
C32_Witness ==
    /\ conc.tpc = "done" /\ last.cnt >= 2
    /\ call.op = "set_nchannels" /\ call.val /\ call.ret = 0
    /\ s.samplespertick # CDiv(s.nchannels * s.rate * interval, 1000)
    /\ Len(outq[0]) = 1 /\ Len(outq[0][1]) = s.samplespertick

\* C35: while the filter is prepared the samples per tick are positive, and the
\* accumulator and the contribution buffer of every channel hold that many samples,
\* whatever rate and channel count the accepted calls have set
C35_BlockSizePositive ==
    Prepared =>
        /\ s.samplespertick > 0
        /\ Len(s.sum) = s.samplespertick
        /\ \A i \in Pins : Len(s.channels[i].input) = s.samplespertick

(* ------------------- what becomes of the queued frames ------------------ *)
\* seq is what is left of whole when samples are taken off its front
Remainder(seq, whole) == \E k \in 0 .. Len(whole) : seq = Drop(whole, k)

\* C33: a tick leaves the queue of every linked input empty. On a summation tick the
\* frames queued on an input were all appended to the bufferizer of its channel, which
\* holds what is left of its former content followed by them, and no output received a
\* queued frame as it was; on a tick that did not sum no bufferizer took a sample, and an
\* output received either nothing or the frames queued on the one active input
C33_FramesConsumedOnce ==
    [][ Ticks => \A i \in inputs :
          /\ inq'[i] = <<>>
          /\ IF last'.cnt >= 2
             THEN /\ Remainder(s'.channels[i].bufferizer, s.channels[i].bufferizer \o Flatten(last'.preq[i]))
                  /\ \A o \in Pins : Len(outq'[o]) <= 1
             ELSE /\ s'.channels[i].bufferizer = s.channels[i].bufferizer
                  /\ last'.cnt = 0 => last'.preq[i] = <<>>
                  /\ last'.cnt = 1 =>
                        /\ i # last'.active_input => last'.preq[i] = <<>>
                        /\ \A o \in Pins : outq'[o] \in {<<>>, last'.preq[last'.active_input]} ]_vars

\* a bypass tick forwarded the two frames queued on input 0 while the bufferizer of
\* channel 0 still holds samples of an earlier summation tick
C33_Witness ==
    /\ BypassTick /\ budget.ticks = 2 /\ last.active_input = 0
    /\ Len(last.preq[0]) = 2 /\ outq[3] = last.preq[0]
    /\ s.channels[0].bufferizer # <<>>
    /\ \A i \in inputs : inq[i] = <<>>

(* ------------------- one speaker left ----------------------------------- *)
\* the latest tick counted the input that is fed alone and no other, and left both
\* strategies in bypass mode
SoloBypass ==
    /\ last.cnt = 1 /\ last.active_input = quiet.pin
    /\ s.bypass_mode /\ v.bypass_mode
\* one input alone has been fed at every tick since some tick, the latest tick is 1000
\* time units or more after that one
SoloLasted == last.tick /\ quiet.pin # -1 /\ time - quiet.since >= BYPASS_MODE_TIMEOUT

\* C34 as stated: once one input alone has been fed for 1000 time units the mixer is in
\* bypass mode after every tick
C34_Original == SoloLasted => SoloBypass

\* C34: when one input alone has been fed at every tick since some tick, 1000 time
\* units or more have passed since that tick, and as many since the first tick after the
\* latest prepare, the latest tick has counted that input alone and has left the mixer
\* in bypass mode; so the mixer is in bypass mode from the first such tick on and at
\* every later tick until another input is fed or the filter is prepared anew
C34_SoloEntersBypass ==
    (SoloLasted /\ time - quiet.session >= BYPASS_MODE_TIMEOUT) => SoloBypass

\* input 1 was fed one time unit before input 0 was left alone, and the tick that comes
\* 1000 time units after that is a bypass tick
C34_Witness ==
    /\ last.tick /\ quiet.pin = 0 /\ time - quiet.since = BYPASS_MODE_TIMEOUT
    /\ s.channels[1].last_activity = quiet.since - 1
    /\ s.bypass_mode /\ outq[3] = <<FrameHalf>>

(* ------------------- audio across two sessions -------------------------- *)
\* C36: a filter that has just been prepared holds no sample in the bufferizer of any
\* channel, so that what a bufferizer held at unprepare cannot reach a frame of a tick
\* after the next prepare; in the scalar and in the vectorized mixer
C36_NoAudioSurvives ==
    phase = "prepared" =>
        \A i \in Pins : s.channels[i].bufferizer = <<>> /\ v.channels[i].bufferizer = <<>>

(* ------------------- the event queue ------------------------------------ *)
\* the events of the queue that filter f did not raise, in their order
OtherEvents(q, f) == SelectSeq(q, LAMBDA e : e.filter # f)

\* the asynchronous callbacks invoked so far
Delivered == SelectSeq(evq.log, LAMBDA c : c.mode = "async")

RECURSIVE AsynchronousCalls(_, _, _)
AsynchronousCalls(f, id, k) ==
    IF k > Len(notify_callbacks(f)) THEN <<>>
    ELSE (IF notify_callbacks(f)[k].synchronous THEN <<>>
          ELSE << [filter |-> f, ev_id |-> id, cb |-> k, mode |-> "async"] >>)
         \o AsynchronousCalls(f, id, k + 1)

\* every asynchronous callback of every event of the sequence, in its order
RECURSIVE CallsOf(_)
CallsOf(events) ==
    IF events = <<>> THEN <<>>
    ELSE AsynchronousCalls(Head(events).filter, Head(events).ev_id, 1) \o CallsOf(Tail(events))

\* the events of filter g in the order they were queued, but those a clean removed
QueuedOf(g) == SelectSeq(evq.queued, LAMBDA e : e.filter = g /\ e.ev_id \notin evq.cleaned)

\* the asynchronous callbacks of filter g invoked so far
DeliveredOf(g) == SelectSeq(evq.log, LAMBDA c : c.mode = "async" /\ c.filter = g)

IsPrefix(a, b) == Len(a) <= Len(b) /\ a = SubSeq(b, 1, Len(a))

\* the pump has delivered everything that was queued
PumpedOut == evq.q = <<>> /\ evq.pump.pc \in {"idle", "read"}

\* C39: once an asynchronous callback has destroyed the filter whose event the pump
\* is delivering, no callback of that filter is invoked any more, neither for this
\* event nor for another one; the events of every filter that was not destroyed are
\* delivered in the order they were queued, each callback once, and all of them by
\* the time the pump has emptied the queue
C39_DestroyedFilterSilenced ==
    (\E f \in Filters : evq.dead[f] >= 0) =>
        /\ \A f \in Filters : evq.dead[f] >= 0 =>
              \A k \in evq.dead[f] + 1 .. Len(evq.log) : evq.log[k].filter # f
        /\ \A g \in Filters : evq.dead[g] < 0 =>
              /\ IsPrefix(DeliveredOf(g), CallsOf(QueuedOf(g)))
              /\ PumpedOut => DeliveredOf(g) = CallsOf(QueuedOf(g))

\* the first callback of an event of F1 destroyed F1 while another event of F1 was
\* queued, and an event of F2 was delivered after that
C39_Witness ==
    /\ evq.dead["F1"] >= 0
    /\ evq.cleaned # {}
    /\ PumpedOut
    /\ \E k \in evq.dead["F1"] + 1 .. Len(evq.log) :
         evq.log[k].filter = "F2" /\ evq.log[k].mode = "async"

\* C38: the event queue never holds more than MS_EVENT_QUEUE_MAX_SIZE + 1 events,
\* whatever the threads that notify and the thread that pumps do
C38_QueueBounded == Len(evq.q) <= MS_EVENT_QUEUE_MAX_SIZE + 1
====
